---- MODULE Spec2Model ----
(***************************************************************************)
(* OpenClaw Desktop Assistant: the execution dispatcher                    *)
(* (AgentPanel.handleRun), the approval workflow                           *)
(* (LogsPanel.handleApproval / loadData), the conversation engine          *)
(* (LLMService), the chat panel that drives it and the settings panel      *)
(* that switches its provider.                                             *)
(*                                                                         *)
(* JavaScript is single threaded: every action below is one run of a       *)
(* handler from one await to the next.  A persistence call (a Tauri        *)
(* invoke) takes effect, or fails, in the action that resumes its caller.  *)
(* Text is modelled as a sequence of one-character strings, so that        *)
(* String.includes is real substring search.                               *)
(*                                                                         *)
(* Spec      the agents and logs pages: runs and approval resolutions.     *)
(* SpecTurn  one sendMessage from every engine state, under every outage.  *)
(* SpecChat  the chat page: turns, sessions, leaving and returning.        *)
(* SpecMode  the settings and chat pages: provider switches, initialize.   *)
(* SpecSettings  initialize and provider switches, one call after another. *)
(* SpecProvider  one sendMessage from every mode, with and without a key.     *)
(* SpecWindow  remote turns on histories shorter and longer than the window. *)
(* SpecClassify  runs and resolutions of a browser agent of any name and goal.*)
(* SpecAudit   an agent created in the chat, then the approvals of Logs.     *)
(* SpecTitle the chat page in local mode, with messages around 35 characters.*)
(***************************************************************************)
EXTENDS Integers, Sequences, FiniteSets, TLC

\* ------------------------------------------------------------------ bounds
MaxCalls == 3           \* handleRun and handleApproval calls in one behaviour
MaxSwitches == 1        \* provider switches that overlap other calls in one behaviour
MaxSaves == 2           \* provider switches made one after the other in one behaviour
MaxClicks == 4          \* user events on the chat page in one behaviour

\* ------------------------------------------------------------------- text
sBrowser == <<"b","r","o","w","s","e","r">>
sCron == <<"c","r","o","n">>
sBrowserCron == <<"b","r","o","w","s","e","r",",","c","r","o","n">>
sTrending == <<"t","r","e","n","d","i","n","g">>
sHashtag == <<"h","a","s","h","t","a","g">>
sOpenclawTag == <<"#","o","p","e","n","c","l","a","w">>
sSandboxMark == <<"[","S","A","N","D","B","O","X","]">>
sDryRun == <<" ","D","r","y","-","r","u","n",":"," ">>
sQueued == <<"Q","u","e","u","e","d"," ","f","o","r"," ","a","p","p","r","o","v","a","l",":"," ">>
sExecuted == <<"E","x","e","c","u","t","e","d",":"," ">>
sErrorRunning == <<"E","r","r","o","r"," ","r","u","n","n","i","n","g",":"," ">>
sApprovedExecuted == <<"A","p","p","r","o","v","e","d"," ","&"," ","E","x","e","c","u","t","e","d">>
sRejected == <<"A","p","p","r","o","v","a","l"," ","r","e","j","e","c","t","e","d">>
sPrefTrending == <<"[","T","r","e","n","d","i","n","g"," ","A","g","e","n","t","]">>
sPrefHashtag == <<"[","H","a","s","h","t","a","g"," ","A","g","e","n","t","]">>
sPrefAgent == <<"[","A","g","e","n","t","]">>

\* the words of the local rules, the drafts, the log actions, the messages
sDaily == <<"0"," ","9"," ","*"," ","*"," ","*">>
tSetupPlease == <<"s","e","t","u","p"," ","p","l","e","a","s","e">>
tYes == <<"y","e","s">>
tTrendingAgent == <<"t","r","e","n","d","i","n","g"," ","a","g","e","n","t">>
tHelp == <<"h","e","l","p">>
tHashtag == <<"h","a","s","h","t","a","g">>

sNewChat == <<"N","e","w"," ","C","h","a","t">>

\* String.prototype.includes: p occurs in s as a contiguous substring.
Includes(s, p) ==
    \E i \in 1..(Len(s) - Len(p) + 1) : SubSeq(s, i, i + Len(p) - 1) = p

\* String.prototype.toLowerCase.
UpperCase == <<"A","B","C","D","E","F","G","H","I","J","K","L","M",
               "N","O","P","Q","R","S","T","U","V","W","X","Y","Z">>
LowerCase == <<"a","b","c","d","e","f","g","h","i","j","k","l","m",
               "n","o","p","q","r","s","t","u","v","w","x","y","z">>

LowerChar(c) ==
    IF \E i \in 1..Len(UpperCase) : UpperCase[i] = c
    THEN LowerCase[CHOOSE i \in 1..Len(UpperCase) : UpperCase[i] = c]
    ELSE c

ToLowerCase(s) == [i \in 1..Len(s) |-> LowerChar(s[i])]

\* String.prototype.trim: without its leading and trailing white space.
WhiteSpace == {" ", "\t", "\n"}

Trim(s) ==
    LET inked == {i \in 1..Len(s) : s[i] \notin WhiteSpace} IN
    IF inked = {} THEN <<>>
    ELSE SubSeq(s, CHOOSE i \in inked : \A j \in inked : i <= j,
                   CHOOSE i \in inked : \A j \in inked : i >= j)

\* ----------------------------------------------------------------- agents
\* Agent records as list_agents returns them.  tools is the comma-separated
\* string the create form stores.
AgentX == [id |-> "a1", name |-> <<"X">>, role |-> <<"r">>, goal |-> <<"g","x">>,
           tools |-> sCron, schedule |-> sDaily, sandbox |-> FALSE]
AgentY == [id |-> "a2", name |-> <<"Y">>, role |-> <<"r">>, goal |-> <<"g","y">>,
           tools |-> sBrowserCron, schedule |-> sDaily, sandbox |-> FALSE]
AgentS == [id |-> "a3", name |-> <<"S">>, role |-> <<"r">>, goal |-> <<"g","s">>,
           tools |-> sBrowser, schedule |-> sDaily, sandbox |-> TRUE]

InitialAgents == <<AgentX, AgentY, AgentS>>

Tabs == {"chat", "agents", "schedules", "logs", "settings"}

VARIABLES
    tab,            \* App.activeTab
    agents,         \* agents table
    logs,           \* execution_logs table, in insertion order
    approvals,      \* approval_queue table, the item with id k at index k
    running,        \* AgentPanel state: ids whose Run button is disabled
    runs,           \* handleRun calls, by call number
    approvalsView,  \* LogsPanel state: approvals
    loading,        \* LogsPanel state: loading
    loads,          \* LogsPanel: a loadData call is in flight
    resolutions,    \* handleApproval calls, by call number
    llm,            \* the llmService singleton
    settings,       \* settings table: llm_provider, llm_api_key, llm_model
    sends,          \* handleSend / sendMessage calls, by call number
    inits,          \* initialize() calls, by call number
    switches,       \* switchToAPI / switchToLocal calls, by call number
    sessions,       \* ChatPanel state: sessions, as saved to localStorage
    activeSessionId, \* ChatPanel state: 0 for null
    messages,       \* ChatPanel state: messages
    isLoading,      \* ChatPanel state: isLoading
    created,        \* session ids generated so far
    sessionFresh,   \* no message was sent since the active session last changed
    sinceLocal,     \* the last switch called was switchToLocal
    failing,        \* the kinds of call that fail during a single-turn scenario
    clicks          \* user events on the chat page so far

dbVars == <<agents, logs, approvals>>
runVars == <<running, runs>>
viewVars == <<approvalsView, loading, loads>>
dispatchVars == <<running, runs, approvalsView, loading, loads, resolutions>>
chatVars == <<sessions, activeSessionId, messages, isLoading, created>>
engineVars == <<llm, settings, sends, inits, switches, chatVars, sessionFresh,
                sinceLocal, failing, clicks>>
vars == <<tab, agents, logs, approvals, dispatchVars, engineVars>>

\* ------------------------------------------------------- persistence gateway
EmptyOutput == [kind |-> "empty", parts |-> <<>>]

LogEntry(agentId, action, status, output, error) ==
    [agentId |-> agentId, action |-> action, status |-> status,
     output |-> output, error |-> error]

\* add_log: one more row.
AddLog(table, entry) == Append(table, entry)

\* add_approval: one more row, created pending.
AddApproval(table, agentId, actionType, contentPreview) ==
    Append(table, [id |-> Len(table) + 1, agentId |-> agentId,
                   actionType |-> actionType, contentPreview |-> contentPreview,
                   status |-> "pending"])

\* update_approval: sets the status of the row with this id, whatever it was.
UpdateApproval(table, id, status) ==
    [k \in 1..Len(table) |->
        IF table[k].id = id THEN [table[k] EXCEPT !.status = status] ELSE table[k]]

\* --------------------------------------------------------- executionOutput.js
DetectAgentType(text) ==
    LET lower == ToLowerCase(text) IN
    IF Includes(lower, sTrending) THEN "trending"
    ELSE IF Includes(lower, sHashtag) \/ Includes(lower, sOpenclawTag) THEN "hashtag"
    ELSE "generic"

BuildSandboxOutput(name, goal) == [kind |-> "sandbox", parts |-> <<name, goal>>]
BuildAutoExecuteOutput(agent) ==
    [kind |-> "auto", parts |-> <<agent.name, agent.role, agent.goal>>]
BuildTrendingOutput == [kind |-> "trending", parts |-> <<>>]
BuildHashtagOutput == [kind |-> "hashtag", parts |-> <<>>]
BuildGenericOutput(action) == [kind |-> "generic", parts |-> <<action>>]

\* ------------------------------------------------------ AgentPanel.handleRun
\* Mutant: the browser test before the sandbox test.
DispatchBranch_BrowserFirst(agent) ==
    IF Includes(agent.tools, sBrowser) THEN "approval"
    ELSE IF agent.sandbox THEN "sandbox"
    ELSE "auto"

\* The branch handleRun takes: the sandbox test comes first.
DispatchBranch(agent) ==
    IF agent.sandbox THEN "sandbox"
    ELSE IF Includes(agent.tools, sBrowser) THEN "approval"
    ELSE "auto"

ApprovalPreview(agent) ==
    LET type == DetectAgentType(agent.name)
        prefix == IF type = "trending" THEN sPrefTrending
                  ELSE IF type = "hashtag" THEN sPrefHashtag ELSE sPrefAgent
    IN prefix \o <<" ">> \o agent.name \o <<":", " ">> \o agent.goal

\* Mutant: the approval branch logs the queued action as a success.
RunLogEntry_QueuedSuccess(agent, branch) ==
    IF branch = "sandbox"
    THEN LogEntry(agent.id, sSandboxMark \o sDryRun \o agent.name, "success",
                  BuildSandboxOutput(agent.name, agent.goal), "")
    ELSE IF branch = "approval"
    THEN LogEntry(agent.id, sQueued \o agent.name, "success",
                  [kind |-> "queued", parts |-> <<>>], "")
    ELSE LogEntry(agent.id, sExecuted \o agent.name, "success",
                  BuildAutoExecuteOutput(agent), "")

\* The LogEntry each branch writes.
RunLogEntry(agent, branch) ==
    IF branch = "sandbox"
    THEN LogEntry(agent.id, sSandboxMark \o sDryRun \o agent.name, "success",
                  BuildSandboxOutput(agent.name, agent.goal), "")
    ELSE IF branch = "approval"
    THEN LogEntry(agent.id, sQueued \o agent.name, "info",
                  [kind |-> "queued", parts |-> <<>>], "")
    ELSE LogEntry(agent.id, sExecuted \o agent.name, "success",
                  BuildAutoExecuteOutput(agent), "")

RunErrorEntry(agent) ==
    LogEntry(agent.id, sErrorRunning \o agent.name, "error", EmptyOutput, "Error")

\* Mutant: the approval branch goes straight to its log write.
RunFirstCall_NoApproval(branch) == "addLog"

\* The first await of a run on this branch.
RunFirstCall(branch) == IF branch = "approval" THEN "addApproval" ELSE "addLog"

\* handleRun up to its first await.
HandleRun(a) ==
    /\ tab = "agents"
    /\ a \in 1..Len(agents)
    /\ agents[a].id \notin running
    /\ Len(runs) + Len(resolutions) < MaxCalls
    /\ running' = running \cup {agents[a].id}
    /\ runs' = Append(runs, [agent |-> agents[a],
                             branch |-> DispatchBranch(agents[a]),
                             pc |-> RunFirstCall(DispatchBranch(agents[a])),
                             made |-> 0, wrote |-> <<>>, failed |-> FALSE,
                             live |-> TRUE])
    /\ UNCHANGED <<tab, dbVars, viewVars, resolutions, engineVars>>

\* await addApproval(agent.id, "agent_execution", preview) returns or throws.
RunAddApproval(i, ok) ==
    /\ i \in 1..Len(runs)
    /\ runs[i].pc = "addApproval"
    /\ IF ok
       THEN /\ approvals' = AddApproval(approvals, runs[i].agent.id,
                                        "agent_execution", ApprovalPreview(runs[i].agent))
            /\ runs' = [runs EXCEPT ![i].pc = "addLog", ![i].made = @ + 1]
       ELSE /\ approvals' = approvals
            /\ runs' = [runs EXCEPT ![i].pc = "errLog", ![i].failed = TRUE]
    /\ UNCHANGED <<tab, agents, logs, running, viewVars, resolutions, engineVars>>

\* Where a run ends, finally clears the Run button's flag (the 1500 ms of the
\* timer are not modelled); a panel unmounted since ignores it.
RunningAfter(run) == IF run.live THEN running \ {run.agent.id} ELSE running

\* await addLog(...) of the branch returns or throws.
RunAddLog(i, ok) ==
    /\ i \in 1..Len(runs)
    /\ runs[i].pc = "addLog"
    /\ IF ok
       THEN /\ logs' = AddLog(logs, RunLogEntry(runs[i].agent, runs[i].branch))
            /\ runs' = [runs EXCEPT ![i].pc = "done", ![i].live = FALSE,
                                    ![i].wrote = Append(@, RunLogEntry(runs[i].agent, runs[i].branch))]
       ELSE /\ logs' = logs
            /\ runs' = [runs EXCEPT ![i].pc = "errLog", ![i].failed = TRUE]
    /\ running' = IF ok THEN RunningAfter(runs[i]) ELSE running
    /\ UNCHANGED <<tab, agents, approvals, viewVars, resolutions, engineVars>>

\* catch (err): await addLog(agent.id, "Error running ...", "error", ...).
\* A throw here leaves handleRun rejected.
RunErrLog(i, ok) ==
    /\ i \in 1..Len(runs)
    /\ runs[i].pc = "errLog"
    /\ IF ok
       THEN /\ logs' = AddLog(logs, RunErrorEntry(runs[i].agent))
            /\ runs' = [runs EXCEPT ![i].pc = "done", ![i].live = FALSE,
                                    ![i].wrote = Append(@, RunErrorEntry(runs[i].agent))]
       ELSE /\ logs' = logs
            /\ runs' = [runs EXCEPT ![i].pc = "raised", ![i].live = FALSE]
    /\ running' = RunningAfter(runs[i])
    /\ UNCHANGED <<tab, agents, approvals, viewVars, resolutions, engineVars>>

\* ------------------------------------------------- LogsPanel.handleApproval
\* The LogEntry a resolution writes, from the item found in the approvals
\* list the handler closed over.
ResolutionAgentId(item) == IF item.agentId = "" THEN "system" ELSE item.agentId

ApprovedOutput(preview) ==
    LET type == DetectAgentType(preview) IN
    IF type = "trending" THEN BuildTrendingOutput
    ELSE IF type = "hashtag" THEN BuildHashtagOutput
    ELSE BuildGenericOutput(preview)

ResolutionLogEntry(item, status) ==
    IF status = "approved"
    THEN LogEntry(ResolutionAgentId(item), sApprovedExecuted, "success",
                  ApprovedOutput(item.contentPreview), "")
    ELSE LogEntry(ResolutionAgentId(item), sRejected, "info",
                  [kind |-> "rejected", parts |-> <<item.contentPreview>>], "")

\* The items ApprovalQueue renders Approve / Reject buttons for.
Actionable(view) == {k \in 1..Len(view) : view[k].status = "pending"}

\* A click on Approve or Reject: handleApproval up to await updateApproval.
HandleApproval(k, status) ==
    /\ tab = "logs"
    /\ ~loading
    /\ k \in Actionable(approvalsView)
    /\ Len(runs) + Len(resolutions) < MaxCalls
    /\ resolutions' = Append(resolutions,
            [id |-> approvalsView[k].id, status |-> status, item |-> approvalsView[k],
             pc |-> "update", updated |-> FALSE, wrote |-> <<>>, before |-> "pending",
             live |-> TRUE])
    /\ UNCHANGED <<tab, dbVars, runVars, viewVars, engineVars>>

\* Mutant: a failed updateApproval is swallowed and the log is written anyway.
ResUpdate_LogOnFailure(r, ok) ==
    /\ r \in 1..Len(resolutions)
    /\ resolutions[r].pc = "update"
    /\ IF ok
       THEN /\ approvals' = UpdateApproval(approvals, resolutions[r].id, resolutions[r].status)
            /\ resolutions' = [resolutions EXCEPT ![r].pc = "addLog", ![r].updated = TRUE,
                                   ![r].before = approvals[resolutions[r].id].status]
       ELSE /\ approvals' = approvals
            /\ resolutions' = [resolutions EXCEPT ![r].pc = "addLog"]
    /\ UNCHANGED <<tab, agents, logs, runVars, viewVars, engineVars>>

\* await updateApproval(id, status) returns or throws (caught, and logged to
\* the console only).
ResUpdate(r, ok) ==
    /\ r \in 1..Len(resolutions)
    /\ resolutions[r].pc = "update"
    /\ IF ok
       THEN /\ approvals' = UpdateApproval(approvals, resolutions[r].id, resolutions[r].status)
            /\ resolutions' = [resolutions EXCEPT ![r].pc = "addLog", ![r].updated = TRUE,
                                   ![r].before = approvals[resolutions[r].id].status]
       ELSE /\ approvals' = approvals
            /\ resolutions' = [resolutions EXCEPT ![r].pc = "done", ![r].live = FALSE]
    /\ UNCHANGED <<tab, agents, logs, runVars, viewVars, engineVars>>

\* await addLog(...) returns, and loadData() is called, or throws (caught).
ResAddLog(r, ok) ==
    /\ r \in 1..Len(resolutions)
    /\ resolutions[r].pc = "addLog"
    /\ resolutions' = [resolutions EXCEPT ![r].pc = "done", ![r].live = FALSE,
            ![r].wrote = IF ok THEN Append(@, ResolutionLogEntry(resolutions[r].item,
                                                                 resolutions[r].status))
                         ELSE @]
    /\ IF ok
       THEN /\ logs' = AddLog(logs, ResolutionLogEntry(resolutions[r].item, resolutions[r].status))
            /\ IF resolutions[r].live
               THEN /\ loading' = TRUE
                    /\ loads' = TRUE
               ELSE UNCHANGED <<loading, loads>>
       ELSE UNCHANGED <<logs, loading, loads>>
    /\ UNCHANGED <<tab, agents, approvals, runVars, approvalsView, engineVars>>

\* ------------------------------------------------------- LogsPanel.loadData
\* The Refresh button.
Refresh ==
    /\ tab = "logs"
    /\ loading' = TRUE
    /\ loads' = TRUE
    /\ UNCHANGED <<tab, dbVars, runVars, approvalsView, resolutions, engineVars>>

\* Promise.all([getLogs(200), getApprovals()]) returns and setApprovals stores
\* the rows, or it throws; finally setLoading(false).  The calls in flight are
\* alike and the last to return decides the view, so one stands for all.
LoadData(ok) ==
    /\ loads
    /\ loads' = FALSE
    /\ approvalsView' = IF ok THEN approvals ELSE approvalsView
    /\ loading' = FALSE
    /\ UNCHANGED <<tab, dbVars, runVars, resolutions, engineVars>>

\* ----------------------------------------------------- LLMService (llm.js)
HistoryWindow == 20

NoText == <<>>

\* A reply of the engine: which text it is, and what it quotes.
Reply(kind, arg) == [kind |-> kind, arg |-> arg]

NoReply == Reply("none", NoText)

Message(role, content) == [role |-> role, content |-> content]

UserMessage(text) == Message("user", Reply("text", text))

\* The drafts the trending and hashtag rules hold out (goals shortened).
TrendingDraft ==
    [name |-> <<"T","r","e","n","d","i","n","g"," ","T","o","p","i","c","s"," ","A","g",
            "e","n","t">>, role |-> <<"C","o","n","t","e","n","t"," ","C","r","e","a","t",
            "o","r">>, goal |-> <<"S","e","a","r","c","h"," ","t","r","e","n","d","i","n",
            "g"," ","O","p","e","n","C","l","a","w"," ","t","o","p","i","c","s">>,
     tools |-> sBrowserCron, schedule |-> sDaily, sandbox |-> FALSE]

HashtagDraft ==
    [name |-> <<"H","a","s","h","t","a","g"," ","P","r","o","m","o","t","e","r"," ","A",
            "g","e","n","t">>, role |-> <<"C","o","m","m","u","n","i","t","y"," ","P","r",
            "o","m","o","t","e","r">>, goal |-> <<"S","e","a","r","c","h"," ","L","i","n",
            "k","e","d","I","n"," ","f","o","r"," ","#","o","p","e","n","c","l","a","w",
            " ","p","o","s","t","s">>,
     tools |-> sBrowserCron, schedule |-> <<"0"," ","*","/","1"," ","*"," ","*"," ","*">>,
              sandbox |-> FALSE]

\* The conditions of the rules of _localInference, on the lowered, trimmed text.
IncludesAny(msg, words) == \E w \in words : Includes(msg, w)

ConfirmsSetup(msg) ==
    IncludesAny(msg,
    {<<"y","e","s">>,
     <<"s","u","r","e">>,
     <<"o","k">>,
     <<"g","o"," ","a","h","e","a","d">>,
     <<"s","t","a","r","t">>,
     <<"s","e","t"," ","i","t"," ","u","p">>})

AsksSetup(msg) ==
    IncludesAny(msg,
    {<<"s","e","t","u","p">>,
     <<"i","n","s","t","a","l","l">>,
     <<"g","e","t"," ","s","t","a","r","t","e","d">>})

ConfirmsDraft(msg) ==
    IncludesAny(msg,
    {<<"y","e","s">>,
     <<"c","r","e","a","t","e">>,
     <<"c","o","n","f","i","r","m">>,
     <<"d","e","p","l","o","y">>,
     <<"d","o"," ","i","t">>})

AsksAgent(msg) ==
    /\ Includes(msg, <<"c","r","e","a","t","e">>)
    /\ IncludesAny(msg, {<<"a","g","e","n","t">>,
     <<"a","u","t","o","m","a","t","i","o","n">>})

AsksTrending(msg) ==
    IncludesAny(msg,
    {sTrending,
     <<"l","i","n","k","e","d","i","n"," ","p","o","s","t">>,
     <<"t","r","e","n","d">>})

AsksHashtag(msg) ==
    IncludesAny(msg,
    {sHashtag,
     sOpenclawTag,
     <<"c","o","m","m","e","n","t">>})

AsksSchedule(msg) ==
    IncludesAny(msg,
    {<<"s","c","h","e","d","u","l","e">>,
     sCron,
     <<"t","i","m","e","r">>})

AsksSandbox(msg) ==
    IncludesAny(msg,
    {<<"s","a","n","d","b","o","x">>,
     <<"d","r","y"," ","r","u","n">>,
     <<"t","e","s","t"," ","m","o","d","e">>})

AsksHelp(msg) ==
    IncludesAny(msg,
    {<<"h","e","l","p">>,
     <<"w","h","a","t"," ","c","a","n"," ","y","o","u"," ","d","o">>,
     <<"c","o","m","m","a","n","d","s">>})

AsksStatus(msg) ==
    IncludesAny(msg,
    {<<"s","t","a","t","u","s">>,
     <<"h","e","a","l","t","h">>,
     <<"c","h","e","c","k">>})

Greets(msg) ==
    \/ IncludesAny(msg, {<<"h","e","l","l","o">>,
     <<"h","i"," ">>})
    \/ msg = <<"h","i">>
    \/ (Len(msg) < 5 /\ ~Includes(msg, <<"y","e","s">>) /\ ~Includes(msg, <<"o","k">>))

\* Mutant: the draft confirmation is tested before the setup confirmation.
MatchedRule_DraftFirst(svc, message) ==
    LET msg == Trim(ToLowerCase(message)) IN
    IF ConfirmsDraft(msg) /\ svc.lastSuggestedAgent # <<>> THEN 3
    ELSE IF svc.pendingSetup /\ ConfirmsSetup(msg) THEN 1
    ELSE IF AsksSetup(msg) THEN 2
    ELSE IF AsksAgent(msg) THEN 4
    ELSE IF AsksTrending(msg) THEN 5
    ELSE IF AsksHashtag(msg) THEN 6
    ELSE IF AsksSchedule(msg) THEN 7
    ELSE IF AsksSandbox(msg) THEN 8
    ELSE IF AsksHelp(msg) THEN 9
    ELSE IF AsksStatus(msg) THEN 10
    ELSE IF Greets(msg) THEN 11
    ELSE 12

\* The first rule of _localInference whose condition holds, 12 when none does.
MatchedRule(svc, message) ==
    LET msg == Trim(ToLowerCase(message)) IN
    IF svc.pendingSetup /\ ConfirmsSetup(msg) THEN 1
    ELSE IF AsksSetup(msg) THEN 2
    ELSE IF ConfirmsDraft(msg) /\ svc.lastSuggestedAgent # <<>> THEN 3
    ELSE IF AsksAgent(msg) THEN 4
    ELSE IF AsksTrending(msg) THEN 5
    ELSE IF AsksHashtag(msg) THEN 6
    ELSE IF AsksSchedule(msg) THEN 7
    ELSE IF AsksSandbox(msg) THEN 8
    ELSE IF AsksHelp(msg) THEN 9
    ELSE IF AsksStatus(msg) THEN 10
    ELSE IF Greets(msg) THEN 11
    ELSE 12

\* The reply of a rule that returns without awaiting anything.
RuleReply(rule, message) ==
    CASE rule = 2 -> Reply("setupPrompt", NoText)
      [] rule = 4 -> Reply("agentForm", NoText)
      [] rule = 5 -> Reply("trendingPreview", NoText)
      [] rule = 6 -> Reply("hashtagPreview", NoText)
      [] rule = 7 -> Reply("schedules", NoText)
      [] rule = 8 -> Reply("sandbox", NoText)
      [] rule = 9 -> Reply("help", NoText)
      [] rule = 10 -> Reply("status", NoText)
      [] rule = 11 -> Reply("greeting", NoText)
      [] OTHER -> Reply("generic", message)

\* Mutant: the guided prompt of rule 4 also stores a draft.
RuleAssigns_PromptDrafts(svc, rule) ==
    CASE rule = 2 -> [svc EXCEPT !.pendingSetup = TRUE]
      [] rule = 4 -> [svc EXCEPT !.lastSuggestedAgent = <<TrendingDraft>>]
      [] rule = 5 -> [svc EXCEPT !.lastSuggestedAgent = <<TrendingDraft>>]
      [] rule = 6 -> [svc EXCEPT !.lastSuggestedAgent = <<HashtagDraft>>]
      [] OTHER -> svc

\* The engine fields such a rule assigns.
RuleAssigns(svc, rule) ==
    CASE rule = 2 -> [svc EXCEPT !.pendingSetup = TRUE]
      [] rule = 5 -> [svc EXCEPT !.lastSuggestedAgent = <<TrendingDraft>>]
      [] rule = 6 -> [svc EXCEPT !.lastSuggestedAgent = <<HashtagDraft>>]
      [] OTHER -> svc

\* The fields the constructor assigns (null is "").
NewLLMService ==
    [mode |-> "local", apiKey |-> "", model |-> "", conversationHistory |-> <<>>,
     pendingSetup |-> FALSE, lastSuggestedAgent |-> <<>>]

\* clearHistory().
ClearHistory(svc) ==
    [svc EXCEPT !.conversationHistory = <<>>, !.pendingSetup = FALSE,
                !.lastSuggestedAgent = <<>>]

\* create_agent: one more row.
AgentIds == <<"a1", "a2", "a3", "a4", "a5", "a6", "a7", "a8">>

CreateAgent(table, data) ==
    Append(table, [id |-> AgentIds[Len(table) + 1], name |-> data.name,
                   role |-> data.role, goal |-> data.goal, tools |-> data.tools,
                   schedule |-> data.schedule, sandbox |-> data.sandbox])

\* The awaits of _executeSetup, in order, and the log each addLog writes.
SetupSteps == <<"checkNode", "log1", "install", "log2", "onboard", "log3",
                "gateway", "log4", "log5">>

SetupLogAction(pc) ==
    CASE pc = "log1" -> <<"S","e","t","u","p"," ","-"," ","s","y","s","t","e","m"," ","c",
            "h","e","c","k"," ","p","a","s","s","e","d">>
      [] pc = "log2" -> <<"O","p","e","n","C","l","a","w"," ","v","2",".","1",".","0"," ",
              "i","n","s","t","a","l","l","e","d">>
      [] pc = "log3" -> <<"O","p","e","n","C","l","a","w"," ","o","n","b","o","a","r","d",
              "i","n","g"," ","c","o","m","p","l","e","t","e">>
      [] pc = "log4" -> <<"G","a","t","e","w","a","y"," ","s","t","a","r","t","e","d"," ",
              "(","p","o","r","t"," ","1","8","7","8","9",")">>
      [] pc = "log5" -> <<"S","e","t","u","p"," ","c","o","m","p","l","e","t","e","d"," ",
              "s","u","c","c","e","s","s","f","u","l","l","y">>

SetupLogEntry(pc) ==
    LogEntry("system", SetupLogAction(pc), "success",
             [kind |-> "setup", parts |-> <<>>], "")

\* What each step adds to the report: the Node.js line of step 1, and the
\* result lines of steps 2 to 4 after the step's command returned (ok: with
\* success true) or did not.
NodeFragment(nodeDetected) == IF nodeDetected THEN "Node.js detected" ELSE "Node.js bundled"

\* Mutant: a failed install is reported to the user.
StepFragment_SurfacesFailure(step, ok) ==
    CASE step = "install" -> IF ok THEN "installed successfully" ELSE "install failed"
      [] step = "onboard" -> "configuration created"
      [] step = "gateway" -> "gateway started"

StepFragment(step, ok) ==
    CASE step = "install" -> IF ok THEN "installed successfully" ELSE "installed successfully"
      [] step = "onboard" -> "configuration created"
      [] step = "gateway" -> "gateway started"

SetupReport(report) == Reply("setupReport", report)

\* The calls rule 3 makes for the draft it confirms.
\* Mutant: the creation is logged with status info.
CreatedLogEntry_Info(agent) ==
    LogEntry("system", <<"A","g","e","n","t"," ","c","r","e","a","t","e","d"," ","v","i",
            "a"," ","c","h","a","t",":"," ">> \o agent.name, "info",
             [kind |-> "json", parts |-> <<agent.name, agent.role, agent.goal,
                                          agent.tools, agent.schedule>>], "")

CreatedLogEntry(agent) ==
    LogEntry("system", <<"A","g","e","n","t"," ","c","r","e","a","t","e","d"," ","v","i",
            "a"," ","c","h","a","t",":"," ">> \o agent.name, "success",
             [kind |-> "json", parts |-> <<agent.name, agent.role, agent.goal,
                                          agent.tools, agent.schedule>>], "")

CreatedPreview(agent) == <<"C","r","e","a","t","e","d",":"," ">> \o agent.name \o <<" ",
        "-"," ">> \o agent.goal

AgentCreated(agent) == Reply("agentCreated", agent.name)

CreateFailed == Reply("createFailed", NoText)

\* ------------------------------------------------ LLMService.sendMessage
\* A world is what a turn reads and writes: the engine object and the tables.
\* A turn p is one sendMessage call; p.pc names the await it is suspended at.

\* Mutant: the window is taken from the start of the history.
LastN_Oldest(s, n) == IF Len(s) <= n THEN s ELSE SubSeq(s, 1, n)

\* conversationHistory.slice(-n).
LastN(s, n) == IF Len(s) <= n THEN s ELSE SubSeq(s, Len(s) - n + 1, Len(s))

\* conversationHistory.push(assistant message); return it.
Finish(w, p, reply) ==
    [w |-> [w EXCEPT !.llm.conversationHistory = Append(@, Message("assistant", reply))],
     p |-> [p EXCEPT !.pc = "done", !.reply = reply]]

\* Mutant: a rule that only answers also drops the setup confirmation.
LocalInference_ForgetsSetup(w, p) ==
    LET rule == MatchedRule(w.llm, p.text)
        q == [p EXCEPT !.evals = @ + 1]
    IN
    IF rule = 1
    THEN [w |-> [w EXCEPT !.llm.pendingSetup = FALSE],
          p |-> [q EXCEPT !.pc = "checkNode", !.ranSetup = TRUE]]
    ELSE IF rule = 3
    THEN [w |-> w, p |-> [q EXCEPT !.pc = "createAgent", !.agent = w.llm.lastSuggestedAgent]]
    ELSE Finish([w EXCEPT !.llm = [RuleAssigns(@, rule) EXCEPT !.pendingSetup = (rule = 2)]],
                q, RuleReply(rule, p.text))

\* _localInference(message) up to its first await, or to its return.
LocalInference(w, p) ==
    LET rule == MatchedRule(w.llm, p.text)
        q == [p EXCEPT !.evals = @ + 1]
    IN
    IF rule = 1
    THEN [w |-> [w EXCEPT !.llm.pendingSetup = FALSE],
          p |-> [q EXCEPT !.pc = "checkNode", !.ranSetup = TRUE]]
    ELSE IF rule = 3
    THEN [w |-> w, p |-> [q EXCEPT !.pc = "createAgent", !.agent = w.llm.lastSuggestedAgent]]
    ELSE Finish([w EXCEPT !.llm = RuleAssigns(@, rule)], q, RuleReply(rule, p.text))

\* An exception reaches the try of sendMessage: the catch block runs
\* _localInference; an exception out of the catch block leaves sendMessage.
Throw(w, p) ==
    IF p.inCatch
    THEN [w |-> w, p |-> [p EXCEPT !.pc = "raised"]]
    ELSE LocalInference(w, [p EXCEPT !.inCatch = TRUE])

\* Mutant: any mode other than local calls out, with or without a key.
SendMessage_AnyRemoteMode(w, p) ==
    LET pushed == [w EXCEPT !.llm.conversationHistory = Append(@, UserMessage(p.text))]
    IN
    IF w.llm.mode # "local"
    THEN [w |-> pushed,
          p |-> [p EXCEPT !.pc = "remote", !.remote = w.llm.mode,
                          !.sent = LastN(pushed.llm.conversationHistory, HistoryWindow)]]
    ELSE LocalInference(pushed, p)

\* sendMessage(userMessage) up to its first await.
SendMessage(w, p) ==
    LET pushed == [w EXCEPT !.llm.conversationHistory = Append(@, UserMessage(p.text))]
    IN
    IF w.llm.mode \in {"openai", "anthropic"} /\ w.llm.apiKey # ""
    THEN [w |-> pushed,
          p |-> [p EXCEPT !.pc = "remote", !.remote = w.llm.mode,
                          !.sent = LastN(pushed.llm.conversationHistory, HistoryWindow)]]
    ELSE LocalInference(pushed, p)

\* Mutant: the install LogEntry is written before installOpenClaw is called.
SetupNext_LogBeforeInstall(pc) ==
    LET steps == <<"checkNode", "log1", "log2", "install", "onboard", "log3",
                   "gateway", "log4", "log5">>
    IN steps[(CHOOSE k \in 1..Len(steps) : steps[k] = pc) + 1]

\* The step after a setup await.
SetupNext(pc) ==
    SetupSteps[(CHOOSE k \in 1..Len(SetupSteps) : SetupSteps[k] = pc) + 1]

\* The call a turn is suspended at returns (ok) or throws.  q.calls lists the
\* calls the turn has made, q.wrote the LogEntries it has appended.
Resume(w, p, ok) ==
    LET q == [p EXCEPT !.calls = Append(@, p.pc)]
        logged(entry) == [q EXCEPT !.wrote = Append(@, entry)]
    IN
    CASE p.pc = "remote" ->
            IF ok THEN Finish(w, q, Reply("remote", NoText))
            ELSE Throw(w, [q EXCEPT !.remoteFailed = TRUE])
      [] p.pc = "checkNode" ->
            [w |-> w, p |-> [q EXCEPT !.pc = "log1", !.nodeDetected = ok,
                                     !.report = Append(@, NodeFragment(ok))]]
      [] p.pc \in {"install", "onboard", "gateway"} ->
            [w |-> w, p |-> [q EXCEPT !.pc = SetupNext(p.pc),
                                     !.report = Append(@, StepFragment(p.pc, ok))]]
      [] p.pc \in {"log1", "log2", "log3", "log4"} ->
            IF ok THEN [w |-> [w EXCEPT !.logs = AddLog(@, SetupLogEntry(p.pc))],
                        p |-> [logged(SetupLogEntry(p.pc)) EXCEPT !.pc = SetupNext(p.pc)]]
            ELSE Throw(w, q)
      [] p.pc = "log5" ->
            IF ok THEN Finish([w EXCEPT !.logs = AddLog(@, SetupLogEntry(p.pc))],
                              logged(SetupLogEntry(p.pc)), SetupReport(p.report))
            ELSE Throw(w, q)
      [] p.pc = "createAgent" ->
            IF ok THEN [w |-> [w EXCEPT !.agents = CreateAgent(@, p.agent[1])],
                        p |-> [q EXCEPT !.pc = "createLog", !.persisted = TRUE]]
            ELSE Finish(w, q, CreateFailed)
      [] p.pc = "createLog" ->
            IF ~ok THEN Finish(w, q, CreateFailed)
            ELSE IF Includes(p.agent[1].tools, sBrowser)
            THEN [w |-> [w EXCEPT !.logs = AddLog(@, CreatedLogEntry(p.agent[1]))],
                  p |-> [logged(CreatedLogEntry(p.agent[1])) EXCEPT !.pc = "createApproval"]]
            ELSE Finish([w EXCEPT !.logs = AddLog(@, CreatedLogEntry(p.agent[1])),
                                  !.llm.lastSuggestedAgent = <<>>],
                        logged(CreatedLogEntry(p.agent[1])), AgentCreated(p.agent[1]))
      [] p.pc = "createApproval" ->
            IF ok THEN Finish([w EXCEPT !.approvals = AddApproval(@, "system", "agent_creation",
                                                                  CreatedPreview(p.agent[1])),
                                        !.llm.lastSuggestedAgent = <<>>],
                              q, AgentCreated(p.agent[1]))
            ELSE Finish(w, q, CreateFailed)

\* A turn that has not started.
NewTurn(text) ==
    [text |-> text, pc |-> "start", inCatch |-> FALSE, remote |-> "",
     remoteFailed |-> FALSE, evals |-> 0, ranSetup |-> FALSE, persisted |-> FALSE,
     agent |-> <<>>, nodeDetected |-> FALSE, reply |-> NoReply, sent |-> <<>>,
     calls |-> <<>>, wrote |-> <<>>, report |-> <<>>]

InFlight(p) == p.pc \notin {"done", "raised"}

\* --------------------------------------------------------------- storage.js
TitleLen == 35

\* Mutant: a text of exactly TitleLen characters is cut as well.
GetChatTitle_CutsAtLimit(msgs) ==
    LET users == {k \in 1..Len(msgs) : msgs[k].role = "user"} IN
    IF users = {} THEN sNewChat
    ELSE LET first == msgs[CHOOSE k \in users : \A j \in users : k <= j]
             text == Trim(first.content.arg)
         IN IF Len(text) >= TitleLen THEN SubSeq(text, 1, TitleLen) \o <<"...">> ELSE text

\* getChatTitle(messages): the first user message, cut at TitleLen characters
\* (the one-character ellipsis is written "...").
GetChatTitle(msgs) ==
    LET users == {k \in 1..Len(msgs) : msgs[k].role = "user"} IN
    IF users = {} THEN sNewChat
    ELSE LET first == msgs[CHOOSE k \in users : \A j \in users : k <= j]
             text == Trim(first.content.arg)
         IN IF Len(text) > TitleLen THEN SubSeq(text, 1, TitleLen) \o <<"...">> ELSE text

\* ------------------------------------------------------------ ChatPanel.jsx
WelcomeMessage == Message("assistant", Reply("welcome", NoText))

NewSession(id, title, msgs) == [id |-> id, title |-> title, messages |-> msgs]

\* Mutant: the effect stores the exchange without the message it began with.
Persisted_DropsFirst(sess, active, msgs) ==
    [k \in 1..Len(sess) |->
        IF sess[k].id = active
        THEN [sess[k] EXCEPT !.messages = Tail(msgs), !.title = GetChatTitle(msgs)]
        ELSE sess[k]]

\* The effect that persists the active session whenever messages change.
Persisted(sess, active, msgs) ==
    [k \in 1..Len(sess) |->
        IF sess[k].id = active
        THEN [sess[k] EXCEPT !.messages = msgs, !.title = GetChatTitle(msgs)]
        ELSE sess[k]]

HasUserMessages(msgs) == \E k \in 1..Len(msgs) : msgs[k].role = "user"

\* What handleSend appends when sendMessage returns, or raises.
Delivered(p) ==
    IF p.pc = "raised" THEN Message("assistant", Reply("error", NoText))
    ELSE Message("assistant", p.reply)

World == [llm |-> llm, agents |-> agents, logs |-> logs, approvals |-> approvals]

Cleared(l) ==
    l.conversationHistory = <<>> /\ ~l.pendingSetup /\ l.lastSuggestedAgent = <<>>

\* handleSend: the text is sent, and sendMessage runs to its first await.
HandleSend(text) ==
    LET t == Trim(text)
        auto == activeSessionId = 0
        id == IF auto THEN created + 1 ELSE activeSessionId
        r == SendMessage(World, NewTurn(t))
        fin == ~InFlight(r.p)
        asked == Append(messages, UserMessage(t))
        msgs == IF fin THEN Append(asked, Delivered(r.p)) ELSE asked
        sess == IF auto
                THEN <<NewSession(id, GetChatTitle(<<UserMessage(t)>>), asked)>> \o sessions
                ELSE sessions
    IN
    /\ tab = "chat"
    /\ ~isLoading
    /\ t # <<>>
    /\ clicks < MaxClicks
    /\ clicks' = clicks + 1
    /\ created' = IF auto THEN created + 1 ELSE created
    /\ activeSessionId' = id
    /\ messages' = msgs
    /\ sessions' = Persisted(sess, id, msgs)
    /\ isLoading' = ~fin
    /\ llm' = r.w.llm
    /\ agents' = r.w.agents
    /\ logs' = r.w.logs
    /\ approvals' = r.w.approvals
    /\ sends' = Append(sends, [p |-> r.p, session |-> id, live |-> ~fin,
                               afterLocal |-> sinceLocal, fresh |-> sessionFresh,
                               start |-> llm])
    /\ sessionFresh' = FALSE
    /\ UNCHANGED <<tab, settings, inits, switches, sinceLocal, failing, dispatchVars>>

\* The call a sendMessage awaits returns or throws; when that ends the turn,
\* handleSend appends the reply and clears isLoading, if its panel is mounted.
SendResume(i, ok) ==
    /\ i \in 1..Len(sends)
    /\ InFlight(sends[i].p)
    /\ LET r == Resume(World, sends[i].p, ok)
           fin == ~InFlight(r.p)
           shown == fin /\ sends[i].live
           msgs == IF shown THEN Append(messages, Delivered(r.p)) ELSE messages
       IN
       /\ llm' = r.w.llm
       /\ agents' = r.w.agents
       /\ logs' = r.w.logs
       /\ approvals' = r.w.approvals
       /\ sends' = [sends EXCEPT ![i].p = r.p, ![i].live = @ /\ ~fin]
       /\ messages' = msgs
       /\ sessions' = Persisted(sessions, activeSessionId, msgs)
       /\ isLoading' = IF shown THEN FALSE ELSE isLoading
    /\ UNCHANGED <<tab, settings, inits, switches, activeSessionId, created,
                   sessionFresh, sinceLocal, failing, clicks, dispatchVars>>

RemoveAt(s, k) == SubSeq(s, 1, k - 1) \o SubSeq(s, k + 1, Len(s))

\* onNewChat: an active session without user messages is kept; otherwise a
\* new session becomes the active one and the engine is cleared.
NewChat ==
    /\ tab = "chat"
    /\ clicks < MaxClicks
    /\ clicks' = clicks + 1
    /\ IF activeSessionId # 0 /\ ~HasUserMessages(messages)
       THEN /\ messages' = <<WelcomeMessage>>
            /\ sessions' = Persisted(sessions, activeSessionId, <<WelcomeMessage>>)
            /\ UNCHANGED <<activeSessionId, created, llm, sessionFresh>>
       ELSE /\ created' = created + 1
            /\ sessions' = <<NewSession(created + 1, sNewChat, <<WelcomeMessage>>)>> \o sessions
            /\ activeSessionId' = created + 1
            /\ messages' = <<WelcomeMessage>>
            /\ llm' = ClearHistory(llm)
            /\ sessionFresh' = TRUE
    /\ UNCHANGED <<tab, agents, logs, approvals, settings, sends, inits, switches,
                   isLoading, sinceLocal, failing, dispatchVars>>

\* onSwitch: a click on a session of the sidebar.
SwitchChat(k) ==
    /\ tab = "chat"
    /\ clicks < MaxClicks
    /\ clicks' = clicks + 1
    /\ k \in 1..Len(sessions)
    /\ activeSessionId' = sessions[k].id
    /\ messages' = sessions[k].messages
    /\ sessions' = sessions
    /\ llm' = ClearHistory(llm)
    /\ sessionFresh' = TRUE
    /\ UNCHANGED <<tab, agents, logs, approvals, settings, sends, inits, switches,
                   created, isLoading, sinceLocal, failing, dispatchVars>>

\* deleteSession, onDelete, and for the active session the newchat event App
\* dispatches next, which onNewChat handles with the state of the last render.
DeleteChat(k) ==
    /\ tab = "chat"
    /\ clicks < MaxClicks
    /\ clicks' = clicks + 1
    /\ k \in 1..Len(sessions)
    /\ IF activeSessionId # sessions[k].id
       THEN /\ sessions' = RemoveAt(sessions, k)
            /\ UNCHANGED <<activeSessionId, messages, created, llm, sessionFresh>>
       ELSE /\ llm' = ClearHistory(llm)
            /\ messages' = <<WelcomeMessage>>
            /\ sessionFresh' = TRUE
            /\ IF ~HasUserMessages(messages)
               THEN /\ sessions' = RemoveAt(sessions, k)
                    /\ activeSessionId' = 0
                    /\ created' = created
               ELSE /\ created' = created + 1
                    /\ sessions' = <<NewSession(created + 1, sNewChat, <<WelcomeMessage>>)>>
                                       \o RemoveAt(sessions, k)
                    /\ activeSessionId' = created + 1
    /\ UNCHANGED <<tab, agents, logs, approvals, settings, sends, inits, switches,
                   isLoading, sinceLocal, failing, dispatchVars>>

\* ------------------------------------------------------ settings (get/set/delete)
NoSettings == [llm_provider |-> "", llm_api_key |-> "", llm_model |-> ""]

\* _defaultModel(provider).
DefaultModel(provider) ==
    CASE provider = "openai" -> "gpt-4o-mini"
      [] provider = "anthropic" -> "claude-3-haiku-20240307"
      [] OTHER -> "phi-3-mini"

\* --------------------------------------------------- LLMService.initialize
NewInitialize == [pc |-> "provider", provider |-> "", key |-> "", threw |-> FALSE]

\* Mutant: a failed read leaves the mode as it was.
InitializeRead_KeepsMode(j, ok) ==
    /\ j \in 1..Len(inits)
    /\ inits[j].pc \in {"provider", "key", "model"}
    /\ IF ~ok
       THEN /\ llm' = llm
            /\ inits' = [inits EXCEPT ![j].pc = "done", ![j].threw = TRUE]
       ELSE IF inits[j].pc = "provider"
       THEN /\ inits' = [inits EXCEPT ![j].pc = "key", ![j].provider = settings.llm_provider]
            /\ llm' = llm
       ELSE IF inits[j].pc = "key"
       THEN /\ inits' = [inits EXCEPT ![j].pc = "model", ![j].key = settings.llm_api_key]
            /\ llm' = llm
       ELSE /\ inits' = [inits EXCEPT ![j].pc = "done"]
            /\ llm' = IF inits[j].key # "" /\ inits[j].provider # ""
                      THEN [llm EXCEPT !.mode = inits[j].provider,
                                       !.apiKey = inits[j].key,
                                       !.model = IF settings.llm_model # ""
                                                 THEN settings.llm_model
                                                 ELSE DefaultModel(inits[j].provider)]
                      ELSE [llm EXCEPT !.mode = "local"]
    /\ UNCHANGED <<tab, agents, logs, approvals, settings, sends, switches, chatVars,
                   sessionFresh, sinceLocal, failing, clicks, dispatchVars>>

\* A getSetting of initialize() returns (ok) or throws; after the third, or
\* after a throw, the mode is assigned.
InitializeRead(j, ok) ==
    /\ j \in 1..Len(inits)
    /\ inits[j].pc \in {"provider", "key", "model"}
    /\ IF ~ok
       THEN /\ llm' = [llm EXCEPT !.mode = "local"]
            /\ inits' = [inits EXCEPT ![j].pc = "done", ![j].threw = TRUE]
       ELSE IF inits[j].pc = "provider"
       THEN /\ inits' = [inits EXCEPT ![j].pc = "key", ![j].provider = settings.llm_provider]
            /\ llm' = llm
       ELSE IF inits[j].pc = "key"
       THEN /\ inits' = [inits EXCEPT ![j].pc = "model", ![j].key = settings.llm_api_key]
            /\ llm' = llm
       ELSE /\ inits' = [inits EXCEPT ![j].pc = "done"]
            /\ llm' = IF inits[j].key # "" /\ inits[j].provider # ""
                      THEN [llm EXCEPT !.mode = inits[j].provider,
                                       !.apiKey = inits[j].key,
                                       !.model = IF settings.llm_model # ""
                                                 THEN settings.llm_model
                                                 ELSE DefaultModel(inits[j].provider)]
                      ELSE [llm EXCEPT !.mode = "local"]
    /\ UNCHANGED <<tab, agents, logs, approvals, settings, sends, switches, chatVars,
                   sessionFresh, sinceLocal, failing, clicks, dispatchVars>>

\* ------------------------------------- LLMService.switchToAPI / switchToLocal
SwitchLogEntry(s) ==
    IF s.kind = "api"
    THEN LogEntry("system", <<"L","L","M"," ","s","w","i","t","c","h","e","d"," ","t","o",
            " ">> \o <<s.provider>>, "success",
                  [kind |-> "model", parts |-> <<s.model>>], "")
    ELSE LogEntry("system", <<"L","L","M"," ","s","w","i","t","c","h","e","d"," ","t","o",
            " ","l","o","c","a","l"," ","(","P","h","i","-","3",")">>, "success", EmptyOutput,
             "")

\* The initialize() calls that are between two of their reads when a switch
\* is called (kept in the record of the switch, with the number of calls made).
ReadingAtCall == {j \in 1..Len(inits) : inits[j].pc # "done"}

\* Mutant: a model the engine already holds is kept.
SwitchToAPI_KeepsModel(provider, apiKey, model) ==
    LET chosen == IF llm.model # "" THEN llm.model
                  ELSE IF model # "" THEN model ELSE DefaultModel(provider) IN
    /\ llm' = [llm EXCEPT !.mode = provider, !.apiKey = apiKey, !.model = chosen]
    /\ switches' = Append(switches, [kind |-> "api", pc |-> "setProvider",
                                     provider |-> provider, key |-> apiKey,
                                     model |-> chosen,
                                     reading |-> ReadingAtCall, inits |-> Len(inits)])
    /\ sinceLocal' = FALSE

\* switchToAPI(provider, apiKey, model) up to its first await.
SwitchToAPI(provider, apiKey, model) ==
    LET chosen == IF model # "" THEN model ELSE DefaultModel(provider) IN
    /\ llm' = [llm EXCEPT !.mode = provider, !.apiKey = apiKey, !.model = chosen]
    /\ switches' = Append(switches, [kind |-> "api", pc |-> "setProvider",
                                     provider |-> provider, key |-> apiKey,
                                     model |-> chosen,
                                     reading |-> ReadingAtCall, inits |-> Len(inits)])
    /\ sinceLocal' = FALSE

\* switchToLocal() up to its first await.
SwitchToLocal ==
    /\ llm' = [llm EXCEPT !.mode = "local", !.apiKey = "", !.model = "phi-3-mini"]
    /\ switches' = Append(switches, [kind |-> "local", pc |-> "delProvider",
                                     provider |-> "", key |-> "", model |-> "",
                                     reading |-> ReadingAtCall, inits |-> Len(inits)])
    /\ sinceLocal' = TRUE

\* The call a switch awaits returns or throws.  A throw of a setSetting or of
\* the addLog leaves the switch; a throw of a deleteSetting skips the deletes
\* left.  The model saved and logged is this.model as it is when the call is
\* made.
SwitchResume(j, ok) ==
    /\ j \in 1..Len(switches)
    /\ switches[j].pc \notin {"done", "raised"}
    /\ LET s == switches[j] IN
       /\ switches' = [switches EXCEPT ![j].pc =
              CASE s.pc = "setProvider" -> IF ok THEN "setKey" ELSE "raised"
                [] s.pc = "setKey" -> IF ok THEN "setModel" ELSE "raised"
                [] s.pc = "setModel" -> IF ok THEN "addLog" ELSE "raised"
                [] s.pc = "delProvider" -> IF ok THEN "delKey" ELSE "addLog"
                [] s.pc = "delKey" -> IF ok THEN "delModel" ELSE "addLog"
                [] s.pc = "delModel" -> "addLog"
                [] s.pc = "addLog" -> IF ok THEN "done" ELSE "raised"]
       /\ settings' =
              IF ~ok THEN settings
              ELSE CASE s.pc = "setProvider" -> [settings EXCEPT !.llm_provider = s.provider]
                     [] s.pc = "setKey" -> [settings EXCEPT !.llm_api_key = s.key]
                     [] s.pc = "setModel" -> [settings EXCEPT !.llm_model = llm.model]
                     [] s.pc = "delProvider" -> [settings EXCEPT !.llm_provider = ""]
                     [] s.pc = "delKey" -> [settings EXCEPT !.llm_api_key = ""]
                     [] s.pc = "delModel" -> [settings EXCEPT !.llm_model = ""]
                     [] OTHER -> settings
       /\ logs' = IF ok /\ s.pc = "addLog"
                  THEN AddLog(logs, SwitchLogEntry([s EXCEPT !.model = llm.model]))
                  ELSE logs
    /\ UNCHANGED <<tab, agents, approvals, llm, sends, inits, chatVars,
                   sessionFresh, sinceLocal, failing, clicks, dispatchVars>>

\* ---------------------------------------------------------- SettingsPanel.jsx
\* handleSave with the form's provider, key and model.
HandleSave(provider, apiKey, model) ==
    /\ tab = "settings"
    /\ IF apiKey # "" /\ provider # "local"
       THEN SwitchToAPI(provider, apiKey, model)
       ELSE SwitchToLocal
    /\ UNCHANGED <<tab, agents, logs, approvals, settings, sends, inits, chatVars,
                   sessionFresh, failing, clicks, dispatchVars>>

\* handleRemoveKey.
HandleRemoveKey ==
    /\ tab = "settings"
    /\ SwitchToLocal
    /\ UNCHANGED <<tab, agents, logs, approvals, settings, sends, inits, chatVars,
                   sessionFresh, failing, clicks, dispatchVars>>

\* ------------------------------------------------------------------ App.jsx
Unmounted(procs) == [i \in 1..Len(procs) |-> [procs[i] EXCEPT !.live = FALSE]]

\* setActiveTab(t): the page of the old tab unmounts, the new one mounts.
TabChange(t) ==
    /\ t \in Tabs
    /\ t # tab
    /\ IF tab = "chat" \/ t = "chat"
       THEN clicks < MaxClicks /\ clicks' = clicks + 1
       ELSE clicks' = clicks
    /\ tab' = t
    /\ IF tab = "agents"
       THEN /\ running' = {}
            /\ runs' = Unmounted(runs)
       ELSE UNCHANGED <<running, runs>>
    /\ resolutions' = IF tab = "logs" THEN Unmounted(resolutions) ELSE resolutions
    /\ approvalsView' = <<>>
    /\ loading' = TRUE
    /\ loads' = (t = "logs")
    /\ sends' = IF tab = "chat" THEN Unmounted(sends) ELSE sends
    /\ IF tab = "chat" \/ t = "chat"
       THEN /\ activeSessionId' = 0
            /\ messages' = <<WelcomeMessage>>
            /\ isLoading' = FALSE
       ELSE UNCHANGED <<activeSessionId, messages, isLoading>>
    /\ IF t = "chat"
       THEN /\ inits' = Append(inits, NewInitialize)
            /\ sessionFresh' = TRUE
       ELSE UNCHANGED <<inits, sessionFresh>>
    /\ UNCHANGED <<dbVars, llm, settings, switches, sessions, created, sinceLocal, failing>>

\* --------------------------------------------------------------- behaviours
\* The application as it starts: the chat page is mounted, no call was made.
InitApp ==
    /\ tab = "chat"
    /\ agents = InitialAgents
    /\ logs = <<>>
    /\ approvals = <<>>
    /\ running = {}
    /\ runs = <<>>
    /\ approvalsView = <<>>
    /\ loading = TRUE
    /\ loads = FALSE
    /\ resolutions = <<>>
    /\ sends = <<>>
    /\ switches = <<>>
    /\ sessions = <<>>
    /\ activeSessionId = 0
    /\ messages = <<WelcomeMessage>>
    /\ isLoading = FALSE
    /\ created = 0
    /\ sessionFresh = TRUE
    /\ sinceLocal = FALSE
    /\ clicks = 0

Init ==
    /\ InitApp
    /\ llm = NewLLMService
    /\ settings = NoSettings
    /\ inits = <<NewInitialize>>
    /\ failing = {}

\* A handleRun call is between two of its awaits.
RunInFlight == \E i \in 1..Len(runs) : runs[i].pc \in {"addApproval", "addLog", "errLog"}

\* The agents and logs pages: runs, resolutions and the reloads between them.
\* A run's persistence calls return before the next user event or the next
\* return of another handler's call (a run shares no state with them but the
\* tables it appends to); resolutions and reloads interleave freely.
Next ==
    \/ \E i \in 1..MaxCalls, ok \in BOOLEAN : RunAddApproval(i, ok)
    \/ \E i \in 1..MaxCalls, ok \in BOOLEAN : RunAddLog(i, ok)
    \/ \E i \in 1..MaxCalls, ok \in BOOLEAN : RunErrLog(i, ok)
    \/ ~RunInFlight /\ \E t \in {"agents", "logs"} : TabChange(t)
    \/ ~RunInFlight /\ \E a \in 1..Len(agents) : HandleRun(a)
    \/ ~RunInFlight /\ \E k \in 1..MaxCalls, status \in {"approved", "rejected"} :
                            HandleApproval(k, status)
    \/ ~RunInFlight /\ \E r \in 1..MaxCalls, ok \in BOOLEAN : ResUpdate(r, ok)
    \/ ~RunInFlight /\ \E r \in 1..MaxCalls, ok \in BOOLEAN : ResAddLog(r, ok)
    \/ ~RunInFlight /\ Refresh
    \/ ~RunInFlight /\ \E ok \in BOOLEAN : LoadData(ok)

Spec == Init /\ [][Next]_vars

\* The settings table holds what an earlier run of the application left there.
SavedSettings ==
    [llm_provider |-> "openai", llm_api_key |-> "k1", llm_model |-> ""]

ChatTexts == {tSetupPlease, tYes, tTrendingAgent}

InitChat ==
    /\ InitApp
    /\ llm = NewLLMService
    /\ settings \in {NoSettings, SavedSettings}
    /\ inits = <<NewInitialize>>
    /\ failing = {}

\* An initialize() call is between two of its reads.
InitializeInFlight == \E j \in 1..Len(inits) : inits[j].pc # "done"

\* A turn is inside _executeSetup, or inside the confirmation of a draft,
\* past its first call.
RuleInFlight ==
    \E i \in 1..Len(sends) :
        sends[i].p.pc \in {"log1", "install", "log2", "onboard", "log3", "gateway",
                           "log4", "log5", "createLog", "createApproval"}

Settled == ~InitializeInFlight /\ ~RuleInFlight

\* The chat page: turns, session events, and leaving and re-entering the tab.
\* The settings reads of initialize() return before the next user event, and
\* so do the calls of a setup sequence or of a draft confirmation after its
\* first one (neither reads an engine field between them).
NextChat ==
    \/ \E j \in 1..MaxClicks, ok \in BOOLEAN : InitializeRead(j, ok)
    \/ ~InitializeInFlight /\ \E i \in 1..MaxClicks, ok \in BOOLEAN : SendResume(i, ok)
    \/ Settled /\ \E text \in ChatTexts : HandleSend(text)
    \/ Settled /\ NewChat
    \/ Settled /\ \E k \in 1..MaxClicks : SwitchChat(k)
    \/ Settled /\ \E k \in 1..MaxClicks : DeleteChat(k)
    \/ Settled /\ \E t \in {"chat", "schedules"} : TabChange(t)

SpecChat == InitChat /\ [][NextChat]_vars

\* One turn from every engine state, under every outage of the calls it makes:
\* the calls of the kinds in failing throw, the others return.
CallKinds == {"remote", "command", "addLog", "createAgent", "addApproval"}

CallKind(pc) ==
    CASE pc = "remote" -> "remote"
      [] pc \in {"checkNode", "install", "onboard", "gateway"} -> "command"
      [] pc = "createAgent" -> "createAgent"
      [] pc = "createApproval" -> "addApproval"
      [] OTHER -> "addLog"

TurnTexts == {tYes, <<"O","K">>, <<"Y","e","s",","," ","c","r","e","a","t","e"," ","i","t">>,
         tSetupPlease, tTrendingAgent, tHashtag,
              <<"c","r","e","a","t","e"," ","a","n"," ","a","g","e","n","t">>, tHelp, <<"s",
                      "t","a","t","u","s">>, <<"h","e","l","l","o">>, <<"h","i">>, <<"f",
                      "o","o"," ","b","a","r">>,
              <<"s","c","h","e","d","u","l","e">>, <<"d","r","y"," ","r","u","n">>,
              <<"C","r","e","a","t","e"," ","a"," ","t","r","e","n","d","i","n","g"," ",
                "a","g","e","n","t">>, <<"s","u","r","e">>}

\* The turns that leave the engine with this pendingSetup and this draft.
PriorHistory(pending, draft) ==
    (IF draft = <<TrendingDraft>>
     THEN <<UserMessage(tTrendingAgent), Message("assistant", RuleReply(5, tTrendingAgent))>>
     ELSE IF draft = <<HashtagDraft>>
     THEN <<UserMessage(tHashtag), Message("assistant", RuleReply(6, tHashtag))>>
     ELSE <<>>)
    \o (IF pending
        THEN <<UserMessage(tSetupPlease), Message("assistant", RuleReply(2, tSetupPlease))>>
        ELSE <<>>)

InitTurn ==
    /\ InitApp
    /\ \E mode \in {"local", "openai", "anthropic"}, pending \in BOOLEAN,
          draft \in {<<>>, <<TrendingDraft>>, <<HashtagDraft>>} :
          llm = [mode |-> mode,
                 apiKey |-> IF mode = "local" THEN "" ELSE "k1",
                 model |-> DefaultModel(mode),
                 conversationHistory |-> PriorHistory(pending, draft),
                 pendingSetup |-> pending,
                 lastSuggestedAgent |-> draft]
    /\ settings = NoSettings
    /\ inits = <<[NewInitialize EXCEPT !.pc = "done"]>>
    /\ failing \in SUBSET CallKinds

NextTurn ==
    \/ sends = <<>> /\ \E text \in TurnTexts : HandleSend(text)
    \/ \E i \in 1..Len(sends) : SendResume(i, CallKind(sends[i].p.pc) \notin failing)

SpecTurn == InitTurn /\ [][NextTurn]_vars

\* The settings page and the chat page: provider switches, the initialize()
\* of every mount of the chat page, and the turns sent in between.
ModeTexts == {tHelp}

\* A provider switch is between two of its calls.
SwitchInFlight == \E j \in 1..Len(switches) : switches[j].pc \notin {"done", "raised"}

\* One switch at a time (the Save button is disabled while saving) and one
\* initialize() at a time; the two interleave freely.  A message is sent when
\* neither is in flight.
NextMode ==
    \/ \E j \in 1..MaxClicks, ok \in BOOLEAN : InitializeRead(j, ok)
    \/ \E j \in 1..MaxSwitches, ok \in BOOLEAN : SwitchResume(j, ok)
    \/ \E i \in 1..MaxClicks, ok \in BOOLEAN : SendResume(i, ok)
    \/ \E t \in {"chat", "settings"} : (t = "chat" => ~InitializeInFlight) /\ TabChange(t)
    \/ ~SwitchInFlight /\ Len(switches) < MaxSwitches /\ HandleSave("openai", "k1", "")
    \/ ~SwitchInFlight /\ Len(switches) < MaxSwitches /\ HandleRemoveKey
    \/ ~InitializeInFlight /\ ~SwitchInFlight /\ \E text \in ModeTexts : HandleSend(text)

SpecMode == InitChat /\ [][NextMode]_vars

\* The engine calls of the settings and chat pages made one after the other:
\* a provider switch or an initialize() starts when the one before returned.
SaveInputs == {<<"openai", "k1", "">>, <<"anthropic", "k2", "m2">>}

EngineCallInFlight == InitializeInFlight \/ SwitchInFlight

NextSettings ==
    \/ \E j \in 1..MaxClicks, ok \in BOOLEAN : InitializeRead(j, ok)
    \/ \E j \in 1..MaxSaves, ok \in BOOLEAN : SwitchResume(j, ok)
    \/ ~EngineCallInFlight /\ \E t \in {"chat", "settings"} : TabChange(t)
    \/ ~EngineCallInFlight /\ Len(switches) < MaxSaves
           /\ \E in \in SaveInputs : HandleSave(in[1], in[2], in[3])
    \/ ~EngineCallInFlight /\ Len(switches) < MaxSaves /\ HandleRemoveKey

SpecSettings == InitChat /\ [][NextSettings]_vars

\* The agents and logs pages with one approval-gated agent, as the create form
\* stores it: the name and the goal are free text.
ClassifyAgents ==
    {[id |-> "a1", name |-> n, role |-> <<"r">>, goal |-> g,
      tools |-> sBrowserCron, schedule |-> sDaily, sandbox |-> FALSE] :
        n \in {<<"N","e","w","s">>,
               <<"H","a","s","h","t","a","g"," ","B","u","z","z">>},
        g \in {<<"d","a","i","l","y"," ","d","i","g","e","s","t">>,
               <<"f","i","n","d"," ","t","r","e","n","d","i","n","g"," ","p","o","s","t","s">>}}

InitClassify ==
    /\ tab = "agents"
    /\ \E agent \in ClassifyAgents : agents = <<agent>>
    /\ logs = <<>>
    /\ approvals = <<>>
    /\ running = {}
    /\ runs = <<>>
    /\ approvalsView = <<>>
    /\ loading = TRUE
    /\ loads = FALSE
    /\ resolutions = <<>>
    /\ sends = <<>>
    /\ switches = <<>>
    /\ sessions = <<>>
    /\ activeSessionId = 0
    /\ messages = <<WelcomeMessage>>
    /\ isLoading = FALSE
    /\ created = 0
    /\ sessionFresh = TRUE
    /\ sinceLocal = FALSE
    /\ clicks = 0
    /\ llm = NewLLMService
    /\ settings = NoSettings
    /\ inits = <<[NewInitialize EXCEPT !.pc = "done"]>>
    /\ failing = {}

SpecClassify == InitClassify /\ [][Next]_vars

\* A text of n characters.
Filler(n) == [i \in 1..n |-> "x"]

\* One turn from every value the mode and apiKey fields can hold, a provider
\* name the engine does not know included.
ProviderModes == {"local", "openai", "anthropic", "gemini"}

ProviderTexts == {tHelp, tYes, tSetupPlease}

InitProvider ==
    /\ InitApp
    /\ \E mode \in ProviderModes, key \in {"", "k1"}, pending \in BOOLEAN,
          draft \in {<<>>, <<TrendingDraft>>} :
          llm = [mode |-> mode,
                 apiKey |-> key,
                 model |-> DefaultModel(mode),
                 conversationHistory |-> PriorHistory(pending, draft),
                 pendingSetup |-> pending,
                 lastSuggestedAgent |-> draft]
    /\ settings = NoSettings
    /\ inits = <<[NewInitialize EXCEPT !.pc = "done"]>>
    /\ failing \in SUBSET CallKinds

NextProvider ==
    \/ sends = <<>> /\ \E text \in ProviderTexts : HandleSend(text)
    \/ \E i \in 1..Len(sends) : SendResume(i, CallKind(sends[i].p.pc) \notin failing)

SpecProvider == InitProvider /\ [][NextProvider]_vars

\* Remote turns of a conversation that already has up to 23 messages, each
\* with a text of its own.
HistoryLengths == {0, 2, 17, 18, 19, 20, 23}

EarlierMessages(n) ==
    [k \in 1..n |-> Message(IF k % 2 = 1 THEN "user" ELSE "assistant",
                            Reply("text", Filler(k)))]

WindowTexts == {tHelp, tYes}

InitWindow ==
    /\ InitApp
    /\ \E mode \in {"openai", "anthropic"}, n \in HistoryLengths :
          llm = [mode |-> mode,
                 apiKey |-> "k1",
                 model |-> DefaultModel(mode),
                 conversationHistory |-> EarlierMessages(n),
                 pendingSetup |-> FALSE,
                 lastSuggestedAgent |-> <<>>]
    /\ settings = NoSettings
    /\ inits = <<[NewInitialize EXCEPT !.pc = "done"]>>
    /\ failing = {}

NextWindow ==
    \/ \E text \in WindowTexts : HandleSend(text)
    \/ \E i \in 1..MaxClicks, ok \in BOOLEAN : SendResume(i, ok)

SpecWindow == InitWindow /\ [][NextWindow]_vars

\* The chat page in local mode with messages of 34 to 41 characters, some
\* with blanks around or inside them: the sessions and the titles they get.
TitleTexts ==
    {<<"h","i">>, Filler(34), Filler(35), Filler(36),
     <<" ">> \o Filler(35) \o <<" ", " ">>,
     Filler(34) \o <<" ">> \o Filler(6)}

InitTitle ==
    /\ InitApp
    /\ llm = NewLLMService
    /\ settings = NoSettings
    /\ inits = <<[NewInitialize EXCEPT !.pc = "done"]>>
    /\ failing = {}

NextTitle ==
    \/ \E text \in TitleTexts : HandleSend(text)
    \/ NewChat
    \/ \E k \in 1..MaxClicks : SwitchChat(k)
    \/ \E k \in 1..MaxClicks : DeleteChat(k)

SpecTitle == InitTitle /\ [][NextTitle]_vars

\* The chat page in local mode, where an agent is drafted and created, and
\* then the Logs page, where the approval queue is reviewed: the user chats
\* until an agent is created, and opens Logs once the creation has queued its
\* ApprovalItem.  MaxCalls bounds the messages and resolutions together.
NextAudit ==
    \/ agents = InitialAgents /\ \E text \in {tTrendingAgent, tHashtag, tYes} : HandleSend(text)
    \/ \E i \in 1..MaxClicks, ok \in BOOLEAN : SendResume(i, ok)
    \/ ~isLoading /\ approvals # <<>> /\ TabChange("logs")
    \/ Len(sends) + Len(resolutions) < MaxCalls
           /\ \E k \in 1..MaxCalls, status \in {"approved", "rejected"} :
                  HandleApproval(k, status)
    \/ \E r \in 1..MaxCalls, ok \in BOOLEAN : ResUpdate(r, ok)
    \/ \E r \in 1..MaxCalls, ok \in BOOLEAN : ResAddLog(r, ok)
    \/ \E ok \in BOOLEAN : LoadData(ok)

SpecAudit == InitTitle /\ [][NextAudit]_vars

\* =================================================================== claims
\* An agent the dispatcher must gate: not sandboxed, tools include 'browser'.
IsGated(agent) == ~agent.sandbox /\ Includes(agent.tools, sBrowser)

GatedIds == {agents[a].id : a \in {b \in 1..Len(agents) : IsGated(agents[b])}}

Statuses(entries) == {entries[j].status : j \in 1..Len(entries)}

C2_StatusChangesOnce ==
    [][\A k \in 1..Len(approvals) :
          approvals[k].status # "pending" => approvals'[k].status = approvals[k].status]_vars

\* C3: a sendMessage whose remote call failed returns the reply, and leaves
\* pendingSetup, the draft and the tables, that a local-mode sendMessage of the
\* same text from the same state returns and leaves, under the same outage.
RECURSIVE RunTurn(_, _, _)
RunTurn(w, p, outage) ==
    IF InFlight(p)
    THEN LET r == Resume(w, p, CallKind(p.pc) \notin outage) IN RunTurn(r.w, r.p, outage)
    ELSE [w |-> w, p |-> p]

LocalTurn(w, text, outage) ==
    LET r == SendMessage([w EXCEPT !.llm.mode = "local", !.llm.apiKey = ""], NewTurn(text))
    IN RunTurn(r.w, r.p, outage)

C3_FallbackEqualsLocal ==
    \A i \in 1..Len(sends) :
        sends[i].p.remoteFailed /\ ~InFlight(sends[i].p) =>
            LET loc == LocalTurn([llm |-> sends[i].start, agents |-> InitialAgents,
                                  logs |-> <<>>, approvals |-> <<>>],
                                 sends[i].p.text, failing) IN
            /\ sends[i].p.pc = loc.p.pc
            /\ sends[i].p.reply = loc.p.reply
            /\ llm.pendingSetup = loc.w.llm.pendingSetup
            /\ llm.lastSuggestedAgent = loc.w.llm.lastSuggestedAgent
            /\ agents = loc.w.agents
            /\ logs = loc.w.logs
            /\ approvals = loc.w.approvals

\* C4: a sendMessage whose remote call failed does not raise: it ends with a
\* reply, which is the last Message of the history.
C4_FallbackNeverRaises ==
    \A i \in 1..Len(sends) :
        sends[i].p.remoteFailed =>
            /\ sends[i].p.pc # "raised"
            /\ sends[i].p.pc = "done" =>
                  llm.conversationHistory[Len(llm.conversationHistory)]
                      = Message("assistant", sends[i].p.reply)

\* C5: once switchToLocal() has been called, and until a switchToAPI, the mode
\* is local and no sendMessage issued makes a remote call.
C5_LocalSticks ==
    /\ sinceLocal => llm.mode = "local"
    /\ \A i \in 1..Len(sends) : sends[i].afterLocal => sends[i].p.remote = ""

\* C6: the first message processed after a change of the active session (new
\* chat, switch, deletion of the active session, re-creation of the chat
\* panel) finds pendingSetup false, no draft and an empty history.
C6_SessionChangeClears ==
    \A i \in 1..Len(sends) : sends[i].fresh => Cleared(sends[i].start)

\* C7: a run whose persistence calls all succeed appends exactly one LogEntry
\* of its agent, success when sandboxed, info when gated, success otherwise,
\* and creates an ApprovalItem if and only if the agent is gated.
ExpectedStatus(agent) == IF ~agent.sandbox /\ Includes(agent.tools, sBrowser) THEN "info" ELSE "success"

C8_SandboxFirst ==
    /\ \A i \in 1..Len(runs) : runs[i].agent.sandbox =>
          /\ runs[i].made = 0
          /\ runs[i].pc = "done" /\ ~runs[i].failed =>
                /\ Len(runs[i].wrote) = 1
                /\ runs[i].wrote[1].status = "success"
                /\ Includes(runs[i].wrote[1].action, sSandboxMark)
    /\ \A k \in 1..Len(approvals), a \in 1..Len(agents) :
          agents[a].sandbox => approvals[k].agentId # agents[a].id

C8_Witness ==
    \E i \in 1..Len(runs) :
        /\ runs[i].agent.sandbox /\ Includes(runs[i].agent.tools, sBrowser)
        /\ runs[i].pc = "done" /\ ~runs[i].failed

\* C9: handleRun never raises: a failure of a persistence call inside the
\* dispatch ends in an error LogEntry and a normal completion.
C9_RunNeverRaises ==
    \A i \in 1..Len(runs) :
        /\ runs[i].pc # "raised"
        /\ runs[i].pc = "done" /\ runs[i].failed =>
              runs[i].wrote[Len(runs[i].wrote)].status = "error"

\* C10: a resolution writes its LogEntry only after its updateApproval has
\* set the item's persisted status, and a resolution whose updateApproval
\* fails writes no LogEntry and leaves the tables as they were.
WritesLog(r) == r \in 1..Len(resolutions) /\ resolutions'[r].wrote # resolutions[r].wrote

UpdateFails(r) ==
    /\ r \in 1..Len(resolutions)
    /\ resolutions[r].pc = "update"
    /\ resolutions'[r].pc = "done"

C10_UpdateBeforeLog ==
    [][\A r \in 1..MaxCalls :
          /\ WritesLog(r) => /\ resolutions[r].updated
                             /\ approvals[resolutions[r].id].status # "pending"
          /\ UpdateFails(r) => /\ approvals' = approvals
                               /\ logs' = logs
                               /\ resolutions'[r].wrote = <<>>
          /\ (r \in 1..Len(resolutions) /\ ~resolutions[r].updated /\ resolutions[r].pc = "done")
                => resolutions[r].wrote = <<>>]_vars

C10_Witness ==
    /\ \E r \in 1..Len(resolutions) :
          resolutions[r].pc = "done" /\ resolutions[r].updated /\ resolutions[r].wrote # <<>>
    /\ \E r \in 1..Len(resolutions) :
          resolutions[r].pc = "done" /\ ~resolutions[r].updated

\* A resolution of an item that was pending when its updateApproval ran
\* completes: its addLog has succeeded and handleApproval goes on to loadData.
ResolutionCompletes(r, status) ==
    /\ r \in 1..Len(resolutions)
    /\ resolutions[r].status = status
    /\ resolutions[r].updated
    /\ resolutions[r].before = "pending"
    /\ resolutions[r].pc = "addLog"
    /\ resolutions'[r].pc = "done"
    /\ resolutions'[r].wrote # <<>>

\* C11: resolving a pending ApprovalItem as approved, the persistence calls
\* succeeding, appends exactly one LogEntry, of status success and with the
\* item's agentId ("system" when it has none), and leaves the item approved.
C11_ApprovedResolution ==
    [][\A r \in 1..MaxCalls :
          ResolutionCompletes(r, "approved") =>
              /\ Len(resolutions'[r].wrote) = 1
              /\ logs' = Append(logs, resolutions'[r].wrote[1])
              /\ logs'[Len(logs')].status = "success"
              /\ logs'[Len(logs')].agentId = ResolutionAgentId(resolutions[r].item)
              /\ approvals'[resolutions[r].id].status = "approved"]_vars

\* C12: resolving a pending ApprovalItem as rejected, the persistence calls
\* succeeding, appends exactly one LogEntry, of status info and with the
\* item's content preview in its output, writes no success LogEntry and
\* leaves the item rejected.
C12_RejectedResolution ==
    [][\A r \in 1..MaxCalls :
          ResolutionCompletes(r, "rejected") =>
              /\ Len(resolutions'[r].wrote) = 1
              /\ logs' = Append(logs, resolutions'[r].wrote[1])
              /\ logs'[Len(logs')].status = "info"
              /\ \E k \in 1..Len(logs'[Len(logs')].output.parts) :
                    logs'[Len(logs')].output.parts[k] = resolutions[r].item.contentPreview
              /\ approvals'[resolutions[r].id].status = "rejected"]_vars

\* C13: once an ApprovalItem's persisted status is approved or rejected, the
\* approvals view neither counts it as pending nor offers Approve / Reject
\* for it, also before the approvals list has been reloaded.
C13_ResolvedNotActionable ==
    tab = "logs" =>
        \A k \in 1..Len(approvalsView) :
            approvals[approvalsView[k].id].status # "pending" => k \notin Actionable(approvalsView)

\* A sendMessage call starts in this step; NewSend is its record.
SendStarts == Len(sends') = Len(sends) + 1

NewSend == sends'[Len(sends')]

\* Turn i returns or raises in this step.
SendEnds(i) == i \in 1..Len(sends) /\ InFlight(sends[i].p) /\ ~InFlight(sends'[i].p)

\* The setup reports: every step reported as done.
SetupReports ==
    {SetupReport(<<node, "installed successfully", "configuration created",
                   "gateway started">>) : node \in {"Node.js detected", "Node.js bundled"}}

\* C14: in local mode with pendingSetup false and no draft, a setup request
\* returns the setup preview and sets pendingSetup without running a setup
\* step; a following 'yes' clears pendingSetup and runs the setup sequence,
\* which appends at least four audit LogEntries.
C14_SetupRequestThenYes ==
    [][/\ (/\ SendStarts
           /\ llm.mode = "local" /\ ~llm.pendingSetup /\ llm.lastSuggestedAgent = <<>>
           /\ AsksSetup(Trim(ToLowerCase(NewSend.p.text))))
          => /\ NewSend.p.pc = "done"
             /\ NewSend.p.reply = Reply("setupPrompt", NoText)
             /\ NewSend.p.calls = <<>>
             /\ llm'.pendingSetup
             /\ logs' = logs
       /\ (/\ SendStarts
           /\ llm.mode = "local" /\ llm.pendingSetup
           /\ NewSend.p.text = tYes)
          => /\ ~llm'.pendingSetup
             /\ NewSend.p.pc = "checkNode"
       /\ \A i \in 1..MaxClicks :
             (/\ SendEnds(i)
              /\ sends[i].start.mode = "local" /\ sends[i].start.pendingSetup
              /\ sends[i].p.text = tYes)
             => /\ sends'[i].p.reply \in SetupReports
                /\ Len(sends'[i].p.wrote) >= 4
                /\ \A k \in 1..Len(sends'[i].p.wrote) :
                      sends'[i].p.wrote[k].agentId = "system"]_vars

\* The position of a call in the calls of a turn, 0 when it was not made.
CallPos(p, call) ==
    IF \E k \in 1..Len(p.calls) : p.calls[k] = call
    THEN CHOOSE k \in 1..Len(p.calls) : p.calls[k] = call
    ELSE 0

CallCount(p, call) == Cardinality({k \in 1..Len(p.calls) : p.calls[k] = call})

\* A turn that ran the setup sequence to its end, every addLog succeeding.
SetupRan(p) == p.ranSetup /\ ~InFlight(p) /\ "addLog" \notin failing

\* C15: a setup run whose log writes succeed makes the system check, install,
\* onboarding and gateway-start calls once each and in that order, each before
\* the LogEntry of its step is written, and appends exactly five LogEntries:
\* one per step, in step order, and a final 'setup completed' entry.
C15_SetupOrder ==
    \A i \in 1..Len(sends) :
        LET p == sends[i].p IN
        SetupRan(p) =>
            /\ \A c \in {"checkNode", "install", "onboard", "gateway"} : CallCount(p, c) = 1
            /\ CallPos(p, "checkNode") < CallPos(p, "log1")
            /\ CallPos(p, "log1") < CallPos(p, "install")
            /\ CallPos(p, "install") < CallPos(p, "log2")
            /\ CallPos(p, "log2") < CallPos(p, "onboard")
            /\ CallPos(p, "onboard") < CallPos(p, "log3")
            /\ CallPos(p, "log3") < CallPos(p, "gateway")
            /\ CallPos(p, "gateway") < CallPos(p, "log4")
            /\ CallPos(p, "log4") < CallPos(p, "log5")
            /\ Len(p.wrote) = 5
            /\ logs = p.wrote
            /\ Includes(p.wrote[1].action, <<"s","y","s","t","e","m"," ","c","h","e","c","k">>)
            /\ Includes(p.wrote[2].action, <<"i","n","s","t","a","l","l","e","d">>)
            /\ Includes(p.wrote[3].action, <<"o","n","b","o","a","r","d","i","n","g">>)
            /\ Includes(p.wrote[4].action, <<"G","a","t","e","w","a","y"," ","s","t","a","r","t","e","d">>)
            /\ Includes(p.wrote[5].action, <<"S","e","t","u","p"," ","c","o","m","p","l","e","t","e","d">>)
            /\ p.pc = "done" /\ p.reply \in SetupReports

C15_Witness ==
    \E i \in 1..Len(sends) :
        /\ SetupRan(sends[i].p)
        /\ sends[i].p.remoteFailed
        /\ "command" \in failing
        /\ Len(logs) = 5

\* The external tool calls of the setup sequence.
ToolCalls == {"install", "onboard", "gateway"}

\* The turn p run to its end from world w, the tool calls in down failing and
\* every other call behaving as in the observed run.
RECURSIVE SetupReplay(_, _, _)
SetupReplay(w, p, down) ==
    IF InFlight(p)
    THEN LET ok == IF p.pc \in ToolCalls THEN p.pc \notin down
                   ELSE CallKind(p.pc) \notin failing
             r == Resume(w, p, ok)
         IN SetupReplay(r.w, r.p, down)
    ELSE [w |-> w, p |-> p]

\* C16: the outcome of a setup run does not depend on the results of the
\* install, onboarding and gateway-start calls: whichever of them fail, the
\* LogEntries written (all of status success) and the reply are the same, and
\* the report of a run that reaches its end reports every step as done.
C16_SetupIgnoresTools ==
    \A i \in 1..Len(sends) :
        LET p == sends[i].p
            first == SendMessage([llm |-> sends[i].start, agents |-> InitialAgents,
                                  logs |-> <<>>, approvals |-> <<>>], NewTurn(p.text))
        IN
        p.ranSetup /\ ~InFlight(p) =>
            /\ \A down \in SUBSET ToolCalls :
                  LET r == SetupReplay(first.w, first.p, down) IN
                  /\ r.p.ranSetup
                  /\ r.p.wrote = p.wrote
                  /\ r.w.logs = logs
                  /\ r.p.pc = p.pc
                  /\ r.p.reply = p.reply
            /\ \A k \in 1..Len(p.wrote) : p.wrote[k].status = "success"
            /\ "addLog" \notin failing => p.reply \in SetupReports

C16_Witness ==
    \E i \in 1..Len(sends) :
        /\ SetupRan(sends[i].p)
        /\ ~sends[i].p.remoteFailed
        /\ "command" \in failing
        /\ sends[i].p.reply \in SetupReports
        /\ Len(sends[i].p.wrote) = 5

\* Turn i evaluated the rules with a draft held and a message that signals
\* confirmation and matches neither rule 1 nor rule 2.
ConfirmsHeldDraft(i) ==
    LET msg == Trim(ToLowerCase(sends[i].p.text))
        start == sends[i].start
    IN
    /\ sends[i].p.evals >= 1
    /\ start.lastSuggestedAgent # <<>>
    /\ ~(start.pendingSetup /\ ConfirmsSetup(msg))
    /\ ~AsksSetup(msg)
    /\ ConfirmsDraft(msg)

PersistenceUp == failing \cap {"createAgent", "addLog", "addApproval"} = {}

SameAgent(row, draft) ==
    /\ row.name = draft.name /\ row.role = draft.role /\ row.goal = draft.goal
    /\ row.tools = draft.tools /\ row.schedule = draft.schedule
    /\ row.sandbox = draft.sandbox

\* C17: with a draft held, rules 1 and 2 not matching, a message that signals
\* confirmation and every persistence call succeeding, the turn persists one
\* agent equal to the draft, then writes one success LogEntry, then creates
\* one pending ApprovalItem of actionType agent_creation exactly when the
\* draft's tools include 'browser'; afterwards no draft is held.
C17_ConfirmPersistsDraft ==
    \A i \in 1..Len(sends) :
        LET p == sends[i].p
            draft == sends[i].start.lastSuggestedAgent[1]
            gated == Includes(draft.tools, sBrowser)
        IN
        ConfirmsHeldDraft(i) /\ PersistenceUp /\ ~InFlight(p) =>
            /\ p.pc = "done"
            /\ p.reply = AgentCreated(draft)
            /\ Len(agents) = Len(InitialAgents) + 1
            /\ SubSeq(agents, 1, Len(InitialAgents)) = InitialAgents
            /\ SameAgent(agents[Len(agents)], draft)
            /\ Len(logs) = 1 /\ logs[1].status = "success" /\ logs = p.wrote
            /\ CallCount(p, "createAgent") = 1 /\ CallCount(p, "createLog") = 1
            /\ CallPos(p, "createAgent") < CallPos(p, "createLog")
            /\ IF gated
               THEN /\ Len(approvals) = 1
                    /\ approvals[1].status = "pending"
                    /\ approvals[1].actionType = "agent_creation"
                    /\ CallCount(p, "createApproval") = 1
                    /\ CallPos(p, "createLog") < CallPos(p, "createApproval")
               ELSE approvals = <<>> /\ CallCount(p, "createApproval") = 0
            /\ llm.lastSuggestedAgent = <<>>

C17_Witness ==
    \E i \in 1..Len(sends) :
        /\ ConfirmsHeldDraft(i) /\ PersistenceUp /\ ~InFlight(sends[i].p)
        /\ sends[i].start.pendingSetup
        /\ sends[i].start.lastSuggestedAgent = <<HashtagDraft>>
        /\ Len(approvals) = 1
        /\ Len(agents) = Len(InitialAgents) + 1

\* C18: when the agent creation fails during a confirmation, sendMessage
\* returns an assistant message naming the failure and does not raise, and no
\* draft is held afterwards (a following confirmation does not retry it).
C18_FailedCreationDropsDraft ==
    \A i \in 1..Len(sends) :
        LET p == sends[i].p IN
        ConfirmsHeldDraft(i) /\ "createAgent" \in failing /\ ~InFlight(p) =>
            /\ p.pc = "done"
            /\ p.reply = CreateFailed
            /\ llm.conversationHistory[Len(llm.conversationHistory)]
                  = Message("assistant", CreateFailed)
            /\ agents = InitialAgents
            /\ llm.lastSuggestedAgent = <<>>

\* The condition of rule k of _localInference, read off the rule table.
RuleHolds(k, svc, msg) ==
    CASE k = 1 -> svc.pendingSetup /\ ConfirmsSetup(msg)
      [] k = 2 -> AsksSetup(msg)
      [] k = 3 -> ConfirmsDraft(msg) /\ svc.lastSuggestedAgent # <<>>
      [] k = 4 -> AsksAgent(msg)
      [] k = 5 -> AsksTrending(msg)
      [] k = 6 -> AsksHashtag(msg)
      [] k = 7 -> AsksSchedule(msg)
      [] k = 8 -> AsksSandbox(msg)
      [] k = 9 -> AsksHelp(msg)
      [] k = 10 -> AsksStatus(msg)
      [] k = 11 -> Greets(msg)
      [] OTHER -> TRUE

\* The lowest-numbered rule whose condition holds.
FirstMatch(svc, message) ==
    LET msg == Trim(ToLowerCase(message)) IN
    CHOOSE k \in 1..12 : /\ RuleHolds(k, svc, msg)
                         /\ \A j \in 1..(k - 1) : ~RuleHolds(j, svc, msg)

\* The reply of the informational rules.
InformationalReply(k, message) ==
    CASE k = 4 -> Reply("agentForm", NoText)
      [] k = 7 -> Reply("schedules", NoText)
      [] k = 8 -> Reply("sandbox", NoText)
      [] k = 9 -> Reply("help", NoText)
      [] k = 10 -> Reply("status", NoText)
      [] k = 11 -> Reply("greeting", NoText)
      [] k = 12 -> Reply("generic", message)

TablesUntouched == agents = InitialAgents /\ logs = <<>> /\ approvals = <<>>

\* C19: one evaluation of the rule table has the reply and the state change
\* of the lowest-numbered rule whose condition holds, and of no other rule: an
\* affirmation with pendingSetup set runs the setup and leaves a held draft
\* untouched, and a confirmation word with a draft held persists the held
\* draft instead of applying rules 4 to 6.
C19_FirstMatchWins ==
    \A i \in 1..Len(sends) :
        LET p == sends[i].p
            start == sends[i].start
            k == FirstMatch(start, p.text)
        IN
        p.evals = 1 =>
            /\ k = 1 => /\ p.ranSetup /\ p.agent = <<>>
                        /\ ~llm.pendingSetup
                        /\ llm.lastSuggestedAgent = start.lastSuggestedAgent
                        /\ agents = InitialAgents /\ approvals = <<>>
                        /\ p.pc = "done" => p.reply \in SetupReports
            /\ k = 2 => /\ p.pc = "done" /\ p.reply = Reply("setupPrompt", NoText)
                        /\ llm.pendingSetup
                        /\ llm.lastSuggestedAgent = start.lastSuggestedAgent
                        /\ TablesUntouched
            /\ k = 3 => /\ ~p.ranSetup /\ p.agent = start.lastSuggestedAgent
                        /\ llm.pendingSetup = start.pendingSetup
                        /\ llm.lastSuggestedAgent \in {start.lastSuggestedAgent, <<>>}
                        /\ p.pc = "done" =>
                              p.reply \in {AgentCreated(start.lastSuggestedAgent[1]), CreateFailed}
                        /\ (p.pc = "done" /\ PersistenceUp) =>
                              SameAgent(agents[Len(agents)], start.lastSuggestedAgent[1])
            /\ k = 5 => /\ p.pc = "done" /\ p.reply = Reply("trendingPreview", NoText)
                        /\ llm.pendingSetup = start.pendingSetup
                        /\ llm.lastSuggestedAgent = <<TrendingDraft>>
                        /\ TablesUntouched
            /\ k = 6 => /\ p.pc = "done" /\ p.reply = Reply("hashtagPreview", NoText)
                        /\ llm.pendingSetup = start.pendingSetup
                        /\ llm.lastSuggestedAgent = <<HashtagDraft>>
                        /\ TablesUntouched
            /\ k \in {4, 7, 8, 9, 10, 11, 12} =>
                        /\ p.pc = "done" /\ p.reply = InformationalReply(k, p.text)
                        /\ llm.pendingSetup = start.pendingSetup
                        /\ llm.lastSuggestedAgent = start.lastSuggestedAgent
                        /\ TablesUntouched

\* An affirmation that also confirms a draft, sent with pendingSetup set and
\* a draft held: the setup ran, the draft is still held.
C19_Witness ==
    \E i \in 1..Len(sends) :
        /\ sends[i].p.evals = 1 /\ sends[i].p.pc = "done"
        /\ sends[i].start.pendingSetup
        /\ sends[i].start.lastSuggestedAgent = <<TrendingDraft>>
        /\ ConfirmsDraft(Trim(ToLowerCase(sends[i].p.text)))
        /\ sends[i].p.reply \in SetupReports
        /\ llm.lastSuggestedAgent = <<TrendingDraft>>

\* Rules 4 and 7 to 12: the guided prompt, scheduling, sandbox, help, status,
\* greeting and the generic fallback.
InformationalRules == {4, 7, 8, 9, 10, 11, 12}

PersistenceCalls ==
    {"log1", "log2", "log3", "log4", "log5", "createAgent", "createLog", "createApproval"}

\* C20: a turn whose matching rule is informational leaves pendingSetup and
\* the draft as they were and makes no persistence call: no agent, LogEntry
\* or ApprovalItem is created.
C20_InformationalFrame ==
    \A i \in 1..Len(sends) :
        LET p == sends[i].p
            start == sends[i].start
        IN
        (p.evals >= 1 /\ FirstMatch(start, p.text) \in InformationalRules) =>
            /\ p.evals = 1 /\ p.pc = "done"
            /\ llm.pendingSetup = start.pendingSetup
            /\ llm.lastSuggestedAgent = start.lastSuggestedAgent
            /\ \A k \in 1..Len(p.calls) : p.calls[k] \notin PersistenceCalls
            /\ p.wrote = <<>> /\ ~p.persisted
            /\ agents = InitialAgents /\ logs = <<>> /\ approvals = <<>>

C20_Witness ==
    \E i \in 1..Len(sends) :
        /\ sends[i].p.evals = 1 /\ sends[i].p.pc = "done"
        /\ FirstMatch(sends[i].start, sends[i].p.text) = 4
        /\ sends[i].p.remoteFailed
        /\ sends[i].start.pendingSetup
        /\ llm.pendingSetup
        /\ llm.lastSuggestedAgent = <<>>
        /\ failing = {"remote"}

\* C21: when rules 1 to 10 do not match, a message shorter than 5 characters
\* that is an affirmation ('yes', 'sure', 'ok') is not answered with the
\* welcome message: it gets the generic fallback of rule 12.
C21_ShortAffirmationNotGreeted ==
    \A i \in 1..Len(sends) :
        LET p == sends[i].p
            msg == Trim(ToLowerCase(p.text))
        IN
        (/\ p.evals = 1 /\ p.pc = "done"
         /\ FirstMatch(sends[i].start, p.text) >= 11
         /\ Len(msg) < 5
         /\ ConfirmsSetup(msg))
        => p.reply = Reply("generic", p.text)

\* initialize() number j returns in this step.
InitializeEnds(j) ==
    j \in 1..Len(inits) /\ inits[j].pc # "done" /\ inits'[j].pc = "done"

SettingsPresent == settings.llm_provider # "" /\ settings.llm_api_key # ""

\* C22: initialize() never raises; when it returns, mode, apiKey and model
\* are those of the persisted settings if provider and key are both present
\* and were read, and the mode is local otherwise: a settings read that fails
\* counts as no saved settings.
C22_InitializeContract ==
    [][\A j \in 1..MaxClicks :
          /\ (j \in 1..Len(inits) /\ inits'[j].threw) => inits'[j].pc = "done"
          /\ InitializeEnds(j) =>
                IF SettingsPresent /\ ~inits'[j].threw
                THEN /\ llm'.mode = settings.llm_provider
                     /\ llm'.apiKey = settings.llm_api_key
                     /\ llm'.model = IF settings.llm_model # "" THEN settings.llm_model
                                     ELSE DefaultModel(settings.llm_provider)
                ELSE llm'.mode = "local"]_vars

C22_Witness ==
    \E j \in 2..Len(inits) :
        /\ inits[j].pc = "done" /\ inits[j].threw
        /\ inits[j - 1].pc = "done" /\ ~inits[j - 1].threw
        /\ SettingsPresent
        /\ llm.mode = "local"

\* C23: whenever the initialize, switchToAPI and switchToLocal calls made so
\* far have all returned, the engine holds an apiKey exactly when its mode is
\* not local.
C23_KeyIffRemote ==
    ~EngineCallInFlight => (llm.apiKey # "" <=> llm.mode # "local")

\* Provider switch number j returns normally in this step.
SwitchEnds(j) ==
    j \in 1..Len(switches) /\ switches[j].pc = "addLog" /\ switches'[j].pc = "done"

\* The model switchToAPI stores for the arguments of the form.
SavedModel(in) == IF in[3] # "" THEN in[3] ELSE DefaultModel(in[1])

Occurrences(entries, e) == Cardinality({k \in 1..Len(entries) : entries[k] = e})

\* C24: switchToAPI is idempotent on state: when a call returns, mode, apiKey,
\* model and the three persisted settings are those of its arguments, whatever
\* they were before, so a second call with the same arguments leaves them as
\* the first did and only appends one more system LogEntry, equal to the first.
C24_SwitchToAPIIdempotent ==
    [][\A j \in 1..MaxSaves, in \in SaveInputs :
          (/\ SwitchEnds(j)
           /\ switches[j].kind = "api"
           /\ switches[j].provider = in[1] /\ switches[j].key = in[2])
          => /\ llm'.mode = in[1] /\ llm'.apiKey = in[2] /\ llm'.model = SavedModel(in)
             /\ settings' = [llm_provider |-> in[1], llm_api_key |-> in[2],
                             llm_model |-> SavedModel(in)]
             /\ Len(logs') = Len(logs) + 1
             /\ SubSeq(logs', 1, Len(logs)) = logs
             /\ logs'[Len(logs')].agentId = "system"
             /\ (j > 1 /\ switches[j - 1] = switches'[j]) =>
                   /\ Occurrences(logs', logs'[Len(logs')]) = Occurrences(logs, logs'[Len(logs')]) + 1
                   /\ Occurrences(logs, logs'[Len(logs')]) >= 1]_vars

C24_Witness ==
    /\ Len(switches) = 2
    /\ switches[1] = switches[2]
    /\ switches[1].kind = "api" /\ switches[1].pc = "done"
    /\ Len(logs) = 2 /\ logs[1] = logs[2]
    /\ llm.mode = switches[2].provider
    /\ settings.llm_api_key = switches[2].key

\* The last provider switch was a switchToLocal, and it has returned.
LocalSwitchReturned ==
    /\ switches # <<>>
    /\ switches[Len(switches)].kind = "local"
    /\ switches[Len(switches)].pc = "done"

\* C25: switchToLocal leaves the engine in local mode without apiKey, and
\* swallows deletion failures in such a way that an initialize() made after it
\* returned, also when a deletion failed, leaves the mode local and no apiKey
\* in the engine.
C25_LocalSurvivesInitialize ==
    [][/\ \A j \in 1..MaxSaves :
             (SwitchEnds(j) /\ switches[j].kind = "local") =>
                 llm'.mode = "local" /\ llm'.apiKey = ""
       /\ \A j \in 1..MaxClicks :
             (InitializeEnds(j) /\ LocalSwitchReturned) =>
                 llm'.mode = "local" /\ llm'.apiKey = ""]_vars

\* The first user message of a list, trimmed; <<>> when there is none.
FirstUserText(msgs) ==
    LET users == {k \in 1..Len(msgs) : msgs[k].role = "user"} IN
    IF users = {} THEN <<>>
    ELSE Trim(msgs[CHOOSE k \in users : \A j \in users : k <= j].content.arg)

\* C26: the title of a message list is 'New Chat' when the list has no user
\* message; otherwise the trimmed first user message, unchanged when it has at
\* most 35 characters, and its first 35 characters followed by one ellipsis
\* character when it has more: an ellipsis is appended exactly when the text
\* was cut.  Deriving the title again from the same list gives the same title.
C26_TitleDerivation ==
    \A k \in 1..Len(sessions) :
        LET msgs == sessions[k].messages
            title == sessions[k].title
            text == FirstUserText(msgs)
        IN
        /\ GetChatTitle(msgs) = title
        /\ ~HasUserMessages(msgs) => title = <<"N","e","w"," ","C","h","a","t">>
        /\ (HasUserMessages(msgs) /\ Len(text) <= 35) => title = text
        /\ (HasUserMessages(msgs) /\ Len(text) > 35) =>
              /\ Len(title) = 36
              /\ SubSeq(title, 1, 35) = SubSeq(text, 1, 35)
              /\ title[36] = "..."
        /\ HasUserMessages(msgs) =>
              ((\E c \in 1..Len(title) : title[c] = "...") <=> Len(text) > 35)

C26_Witness ==
    \E k, j \in 1..Len(sessions) :
        /\ Len(FirstUserText(sessions[k].messages)) = 41
        /\ Len(sessions[k].title) = 36
        /\ Len(FirstUserText(sessions[j].messages)) = 35
        /\ sessions[j].title = Filler(35)

\* The calls of each kind that have started and not yet returned or raised.
TurnsInFlight == {i \in 1..Len(sends) : InFlight(sends[i].p)}

DispatchesInFlight(id) ==
    {i \in 1..Len(runs) : runs[i].agent.id = id
                          /\ runs[i].pc \in {"addApproval", "addLog", "errLog"}}

ResolutionsInFlight(id) ==
    {r \in 1..Len(resolutions) : resolutions[r].id = id
                                 /\ resolutions[r].pc \in {"update", "addLog"}}

OneTurnInFlight == Cardinality(TurnsInFlight) <= 1

OneDispatchPerAgent ==
    \A a \in 1..Len(agents) : Cardinality(DispatchesInFlight(agents[a].id)) <= 1

OneResolutionPerItem ==
    \A k \in 1..Len(approvals) : Cardinality(ResolutionsInFlight(approvals[k].id)) <= 1

\* C27: user actions are serialized.  In every reachable state at most one
\* sendMessage is in flight on the shared engine, at most one dispatch of a
\* given agent is in flight and at most one resolution of a given ApprovalItem
\* is in flight, whatever the sequence of sends, runs, approvals, rejections,
\* tab changes and session switches.
C27_ActionsSerialized ==
    /\ OneTurnInFlight
    /\ OneDispatchPerAgent
    /\ OneResolutionPerItem

\* C28: in every reachable state the message list of every stored session
\* starts with the fixed welcome message, whether the session was created by
\* New Chat or by the first message sent with no active session, after any
\* sequence of sends, new chats, switches and deletions.
C28_SessionsStartWithWelcome ==
    \A k \in 1..Len(sessions) :
        /\ sessions[k].messages # <<>>
        /\ sessions[k].messages[1] = WelcomeMessage

\* Two user events: a message that created session 1 and got its reply, then
\* New Chat, which created session 2.
C28_Witness ==
    /\ clicks = 2
    /\ Len(sessions) = 2
    /\ sessions[1].id = 2 /\ ~HasUserMessages(sessions[1].messages)
    /\ sessions[2].id = 1 /\ Len(sessions[2].messages) = 3
    /\ sessions[2].messages[2].role = "user"

\* The remote calls a turn has issued, the one it is waiting for included.
RemoteCalls(p) == CallCount(p, "remote") + (IF p.pc = "remote" THEN 1 ELSE 0)

\* The engine was in a remote mode and held a key when the turn started.
KeyedRemote(svc) == svc.mode \in {"openai", "anthropic"} /\ svc.apiKey # ""

\* C29: sendMessage issues a remote call exactly when the mode is openai or
\* anthropic and an apiKey is held, and then one call, to the provider the mode
\* names.  In every other state (local mode, a remote mode without a key, an
\* unknown provider) no remote call is made and the reply comes from the local
\* rules.
C29_RemoteIffKeyedRemoteMode ==
    \A i \in 1..Len(sends) :
        LET p == sends[i].p
            start == sends[i].start
        IN
        /\ KeyedRemote(start) <=> RemoteCalls(p) >= 1
        /\ KeyedRemote(start) => RemoteCalls(p) = 1 /\ p.remote = start.mode
        /\ ~KeyedRemote(start) =>
              /\ p.remote = ""
              /\ p.evals >= 1
              /\ p.pc = "done" => p.reply.kind # "remote"

C29_Witness ==
    /\ \E i \in 1..Len(sends) :
          /\ sends[i].start.mode = "anthropic" /\ sends[i].start.apiKey = "k1"
          /\ sends[i].p.pc = "done" /\ sends[i].p.reply.kind = "remote"
          /\ sends[i].p.remote = "anthropic"

\* The engine history when turn i made its remote call: the history the turn
\* found and the user message it pushed.
HistoryAtCall(i) == Append(sends[i].start.conversationHistory, UserMessage(sends[i].p.text))

Min(a, b) == IF a <= b THEN a ELSE b

\* C30: the conversation sent with a remote call is exactly the last
\* min(20, n) messages of the engine history of length n, in their order, and
\* its last element is the user message of the current turn.
C30_SendsLastTwenty ==
    \A i \in 1..Len(sends) :
        sends[i].p.remote # "" =>
            LET h == HistoryAtCall(i)
                n == Len(h)
                m == Min(20, n)
                sent == sends[i].p.sent
            IN
            /\ Len(sent) = m
            /\ \A k \in 1..m : sent[k] = h[n - m + k]
            /\ sent[m] = UserMessage(sends[i].p.text)

\* A call made on a history of more than 20 messages, and one on fewer.
C30_Witness ==
    \E i, j \in 1..Len(sends) :
        /\ sends[i].p.remote # "" /\ Len(HistoryAtCall(i)) > 20
        /\ Len(sends[i].p.sent) = 20
        /\ sends[j].p.remote # "" /\ Len(HistoryAtCall(j)) = 20
        /\ sends[j].p.sent = HistoryAtCall(j)

\* The agent a run's ApprovalItem was created for.
AgentOf(id) == agents[CHOOSE a \in 1..Len(agents) : agents[a].id = id]

\* The execution report of each type.
ReportKind(type) ==
    CASE type = "trending" -> "trending"
      [] type = "hashtag" -> "hashtag"
      [] OTHER -> "generic"

\* C31: dispatch and approval classify alike.  For every ApprovalItem a run
\* created, the type computed from the stored content preview equals the type
\* the dispatcher computed from the agent's name when it built the preview,
\* and the report an approved resolution writes is the report of that type.
C31_ClassificationsAgree ==
    /\ \A k \in 1..Len(approvals) :
          approvals[k].actionType = "agent_execution" =>
              DetectAgentType(approvals[k].contentPreview)
                  = DetectAgentType(AgentOf(approvals[k].agentId).name)
    /\ \A r \in 1..Len(resolutions) :
          (resolutions[r].status = "approved" /\ resolutions[r].wrote # <<>>) =>
              resolutions[r].wrote[1].output.kind
                  = ReportKind(DetectAgentType(AgentOf(resolutions[r].item.agentId).name))

\* A history of user / assistant pairs.
HistoryPaired(h) ==
    /\ Len(h) % 2 = 0
    /\ \A k \in 1..Len(h) : h[k].role = IF k % 2 = 1 THEN "user" ELSE "assistant"

\* C32: whenever no sendMessage is in flight the engine history is a sequence
\* of user / assistant pairs: even length, user first, roles alternating, each
\* completed turn having appended its user message and then its reply.  This
\* holds after any sequence of sendMessage and clearHistory calls, a
\* clearHistory issued while a sendMessage awaits its reply included.
C32_HistoryPaired ==
    TurnsInFlight = {} => HistoryPaired(llm.conversationHistory)

\* Turn i, sent in a session that is no longer the active one, moves on in
\* this step.
LateTurnMoves(i) ==
    /\ i \in 1..Len(sends)
    /\ Len(sends') = Len(sends)
    /\ sends'[i].p # sends[i].p
    /\ sends[i].session # activeSessionId

\* C33: a reply is appended only to the conversation of the session its user
\* message was sent in.  When the active session has changed (switch, new
\* chat, delete) while the sendMessage was in flight, the late reply is not
\* appended to the messages of the newly active session, and the late turn
\* sets neither pendingSetup nor a draft for it.
C33_LateReplyStaysOut ==
    [][\A i \in 1..MaxClicks :
          LateTurnMoves(i) =>
              /\ messages' = messages
              /\ llm'.pendingSetup => llm.pendingSetup
              /\ llm'.lastSuggestedAgent \in {<<>>, llm.lastSuggestedAgent}]_vars

\* What a switch assigns to the engine.
SetBySwitch(s) ==
    IF s.kind = "api"
    THEN [mode |-> s.provider, apiKey |-> s.key, model |-> s.model]
    ELSE [mode |-> "local", apiKey |-> "", model |-> "phi-3-mini"]

\* C34: a provider switch is not undone by an overlapping initialize().  When
\* a switchToLocal or switchToAPI was called while an initialize() was reading
\* the settings, and both have completed with no engine call since, the mode,
\* apiKey and model are those the switch set.
C34_SwitchSurvivesInitialize ==
    \A j \in 1..Len(switches) :
        (/\ j = Len(switches)
         /\ switches[j].reading # {}
         /\ switches[j].inits = Len(inits)
         /\ switches[j].pc = "done"
         /\ ~InitializeInFlight)
        => /\ llm.mode = SetBySwitch(switches[j]).mode
           /\ llm.apiKey = SetBySwitch(switches[j]).apiKey
           /\ llm.model = SetBySwitch(switches[j]).model

\* C35: one sendMessage applies the effects of at most one local rule.  For
\* every state, message and outcome of the persistence calls, a turn never
\* both consumes pendingSetup (starting the setup sequence) and persists the
\* drafted agent, and in local mode the rule table is evaluated at most once
\* per turn.
C35_OneRulePerTurn ==
    \A i \in 1..Len(sends) :
        /\ ~(sends[i].p.ranSetup /\ sends[i].p.persisted)
        /\ sends[i].start.mode = "local" => sends[i].p.evals <= 1

\* Turn k held out a draft: rule 5 or rule 6 fired.
DraftFired(k) ==
    /\ sends[k].p.pc = "done"
    /\ sends[k].p.reply.kind \in {"trendingPreview", "hashtagPreview"}

\* C36: a drafted agent is persisted at most once.  For every sequence of
\* messages and every outcome of the persistence calls, between two turns
\* whose createAgent succeeded a new draft was held out (rule 5 or 6 fired):
\* no draft is created twice, also when the creation log or the approval
\* write failed after the agent was created and the user confirms again.
C36_DraftPersistedOnce ==
    \A i, j \in 1..Len(sends) :
        (i < j /\ sends[i].p.persisted /\ sends[j].p.persisted) =>
            \E k \in (i + 1)..(j - 1) : DraftFired(k)

\* Turn i evaluates the rule table in this step.
Evaluates(i) ==
    /\ i \in 1..Len(sends')
    /\ sends'[i].p.evals > (IF i <= Len(sends) THEN sends[i].p.evals ELSE 0)

\* Turn i enters the setup sequence in this step: an evaluation of the rule
\* table takes rule 1 and is suspended at the system check.
StartsSetup(i) == Evaluates(i) /\ sends'[i].p.pc = "checkNode"

\* clearHistory() is called in this step.
ClearHistoryCalled == sends' = sends /\ llm' = ClearHistory(llm)

\* C37: pendingSetup goes from true to false only when rule 1 fires or
\* clearHistory is called: turns that match other rules leave it true, an
\* affirmation evaluated while it is true starts the setup sequence, and the
\* setup sequence never starts where pendingSetup was false.
C37_PendingSetupHeld ==
    [][/\ (llm.pendingSetup /\ ~llm'.pendingSetup) =>
              \/ \E i \in 1..MaxClicks : StartsSetup(i)
              \/ ClearHistoryCalled
       /\ \A i \in 1..MaxClicks :
              /\ StartsSetup(i) => llm.pendingSetup
              /\ (/\ Evaluates(i)
                  /\ llm.pendingSetup
                  /\ ConfirmsSetup(Trim(ToLowerCase(sends'[i].p.text))))
                 => StartsSetup(i)]_vars

\* A 'yes' sent while pendingSetup was true has run the setup sequence to its
\* end, and pendingSetup is false.
C37_Witness ==
    \E i \in 1..Len(sends) :
        /\ sends[i].start.pendingSetup
        /\ sends[i].p.text = tYes
        /\ sends[i].p.ranSetup /\ sends[i].p.pc = "done"
        /\ sends[i].p.reply \in SetupReports
        /\ ~llm.pendingSetup

\* C38: every 'Approved & Executed' success LogEntry with an execution report
\* stands for an agent run: it is written only for an ApprovalItem the
\* dispatcher created for a run (actionType agent_execution), never for the
\* item that agent creation in the chat adds for a browser-tool agent
\* (actionType agent_creation, agentId 'system').
C38_ReportsOnlyForRuns ==
    \A r \in 1..Len(resolutions) :
        (resolutions[r].status = "approved" /\ resolutions[r].wrote # <<>>) =>
            /\ resolutions[r].item.actionType = "agent_execution"
            /\ resolutions[r].item.agentId # "system"

\* Run i has written the 'Error running' LogEntry of its agent.
WroteError(i) == \E k \in 1..Len(runs[i].wrote) : runs[i].wrote[k] = RunErrorEntry(runs[i].agent)

\* C39: a run that ends with an error LogEntry has taken no other effect.
\* Whenever handleRun has written the 'Error running' entry for an agent, that
\* run has created no ApprovalItem and written no success or info LogEntry,
\* whatever the outcome of each persistence call.
C39_ErrorRunHasNoEffect ==
    \A i \in 1..Len(runs) :
        WroteError(i) =>
            /\ runs[i].made = 0
            /\ \A k \in 1..Len(runs[i].wrote) : runs[i].wrote[k].status = "error"

====
